---- MODULE Spec2Model ----
(***************************************************************************)
(* Model of the MamoraBot trading engines:                                 *)
(*   SmartDecisionEngine   (dual-source signal, confidence)                *)
(*   EnhancedTradingEngine (indicators from bars, structured signal)       *)
(*   AdvancedTradingAI     (recommendation, risk levels, trade history)    *)
(* Each engine is an independent object; the variable `engine` says which  *)
(* one a behaviour exercises, the other engines stay as constructed.       *)
(* JavaScript numbers are modelled as exact rationals [n, d], d > 0.       *)
(***************************************************************************)
EXTENDS Integers, Sequences, FiniteSets, TLC

\* null / undefined object and the not-a-number value; a missing field of an
\* object is a field absent from the record's domain
Null == [null |-> TRUE]
NaN == [nan |-> TRUE]

\* JavaScript is strict: `const v = e` computes e before the statements that
\* use v.  Const(e, F) is F(e) with e computed first.
Const(e, F(_)) == CHOOSE r \in {F(v) : v \in {e}} : TRUE

\* ------------------------------------------------------------------------
\* Rational arithmetic (the model of JavaScript number arithmetic)
\* ------------------------------------------------------------------------
Abs(x) == IF x < 0 THEN -x ELSE x

RECURSIVE GCD(_, _)
GCD(a, b) == IF b = 0 THEN a ELSE GCD(b, a % b)

Rat(n, d) ==
    LET s == IF d < 0 THEN -1 ELSE 1
        g == GCD(Abs(n), Abs(d))
    IN  [n |-> (s * n) \div g, d |-> (s * d) \div g]

R(i) == [n |-> i, d |-> 1]

LCM(a, b) == (a \div GCD(a, b)) * b

\* the operations are defined on rationals in lowest terms with a positive
\* denominator
RAdd(a, b) ==
    CASE a.d > 0 /\ b.d > 0 ->
        LET l == LCM(a.d, b.d)
        IN  Rat(a.n * (l \div a.d) + b.n * (l \div b.d), l)
RNeg(a) == [n |-> -a.n, d |-> a.d]
RSub(a, b) == CASE a.d > 0 /\ b.d > 0 -> RAdd(a, RNeg(b))
RMul(a, b) ==
    CASE a.d > 0 /\ b.d > 0 ->
        LET g1 == GCD(Abs(a.n), b.d)
            g2 == GCD(Abs(b.n), a.d)
            h1 == IF g1 = 0 THEN 1 ELSE g1
            h2 == IF g2 = 0 THEN 1 ELSE g2
        IN  Rat((a.n \div h1) * (b.n \div h2), (a.d \div h2) * (b.d \div h1))
RDiv(a, b) ==
    CASE a.d > 0 /\ b.d > 0 ->
        RMul(a, IF b.n < 0 THEN [n |-> -b.d, d |-> -b.n] ELSE [n |-> b.d, d |-> b.n])
RSign(a) == IF a.n > 0 THEN 1 ELSE IF a.n < 0 THEN -1 ELSE 0
RLt(a, b) == CASE a.d > 0 /\ b.d > 0 -> RSign(RSub(a, b)) < 0
RLe(a, b) == CASE a.d > 0 /\ b.d > 0 -> RSign(RSub(a, b)) <= 0
RGt(a, b) == RLt(b, a)
RGe(a, b) == RLe(b, a)
RAbs(a) == [n |-> Abs(a.n), d |-> a.d]
RMax(a, b) == CASE a.d > 0 /\ b.d > 0 -> IF RLt(a, b) THEN b ELSE a
RMin(a, b) == CASE a.d > 0 /\ b.d > 0 -> IF RLt(b, a) THEN b ELSE a
RFloor(a) == a.n \div a.d
\* Math.round: nearest integer, halves towards +Infinity
MathRound(a) == RFloor(RAdd(a, Rat(1, 2)))
\* Number.prototype.toFixed(k): nearest multiple of 10^-k, halves away from
\* zero; the result is the integer number of 10^-k units of the string.
ToFixedUnits(a, scale) ==
    IF a.n >= 0 THEN MathRound(RMul(a, R(scale)))
    ELSE -MathRound(RMul(RAbs(a), R(scale)))
ToFixed2(a) == ToFixedUnits(a, 100)
ToFixed1(a) == ToFixedUnits(a, 10)

\* Array.prototype.reduce((a, b) => a + b, 0); exact sums do not depend on
\* the order of the additions, so the range is halved
RECURSIVE RSumRange(_, _, _)
RSumRange(s, lo, hi) ==
    IF lo > hi THEN R(0)
    ELSE IF lo = hi THEN s[lo]
    ELSE LET mid == (lo + hi) \div 2
             left == RSumRange(s, lo, mid)
             right == RSumRange(s, mid + 1, hi)
         IN  IF left.d > 0 /\ right.d > 0 THEN RAdd(left, right) ELSE R(0)
RSum(s) == Const(s, LAMBDA v : RSumRange(v, 1, Len(v)))

\* an array built element by element (Array.prototype.map, a loop of push):
\* the finished array, every element computed
Array(f) == f \o <<>>

\* Array.prototype.slice(-k) for k > 0: the last min(k, length) elements
SliceLast(s, k) ==
    IF Len(s) <= k THEN s ELSE SubSeq(s, Len(s) - k + 1, Len(s))
\* Array.prototype.slice(-limit) for any integer limit >= 0: slice(-0) is
\* slice(0), the whole array
SliceNeg(s, limit) == IF limit = 0 THEN s ELSE SliceLast(s, limit)

\* JavaScript truthiness of a number-or-missing field: undefined/null and 0
\* are falsy
Truthy(obj, f) == f \in DOMAIN obj /\ obj[f] # 0

VARIABLES
    engine,        \* which engine object this behaviour exercises
    sde_history,   \* SmartDecisionEngine.signalHistory
    sde_metrics,   \* SmartDecisionEngine.performanceMetrics
    sde_ret,       \* value returned by the last SmartDecisionEngine call
    sde_call,      \* the last SmartDecisionEngine call and its arguments
    ete_ret,       \* value returned by the last EnhancedTradingEngine call
    ete_call,      \* the last EnhancedTradingEngine call and its arguments
    ai_history,    \* AdvancedTradingAI.tradeHistory
    ai_metrics,    \* AdvancedTradingAI.performanceMetrics
    ai_storage,    \* localStorage item 'tradingAI_history'
    ai_now,        \* Date.now(), in days
    ai_serial,     \* number of trade ids generated so far
    ai_ret,        \* how the last AdvancedTradingAI call completed, and its value
    ai_call,       \* the last AdvancedTradingAI call and its arguments
    sig_tradeHistory, \* EnhancedTradingSignals: the tradeHistory state of the component
    ml_learningData, \* MLEngine.learningData
    ml_performance,  \* MLEngine.performance
    ml_now,        \* Date.now(), in milliseconds
    ml_ret,        \* value returned by the last MLEngine call
    ml_call,       \* the last MLEngine call and its arguments
    mae_history,   \* MarketAnalysisEngine.analysisHistory
    mae_now,       \* Date.now(), in milliseconds
    mae_ret,       \* value the last performAnalysis call resolved to
    mae_call,      \* the last MarketAnalysisEngine call and its arguments
    ml_isLearning,        \* MLEngine.isLearning
    ml_learningInterval,  \* MLEngine.learningInterval
    ml_timers,            \* the interval timers of the MLEngine that are active
    mae_isRunning,        \* MarketAnalysisEngine.isRunning
    mae_analysisInterval, \* MarketAnalysisEngine.analysisInterval
    mae_timers,           \* the interval timers of the analysis engine that are active
    dm_cache,      \* the data manager's Map cache
    dm_lastUpdate, \* the data manager's Map lastUpdate
    dm_pending,    \* the calls that await their fetch
    dm_now,        \* Date.now(), in milliseconds
    dm_ret,        \* the call that resolved last and its value
    dm_call,       \* the last data manager call: its argument, number and time
    dm_log         \* the fetches that gave data and the clearCache calls, in order

sdeVars == <<sde_history, sde_metrics, sde_ret, sde_call>>
eteVars == <<ete_ret, ete_call>>
aiVars == <<ai_history, ai_metrics, ai_storage, ai_now, ai_serial, ai_ret, ai_call,
            sig_tradeHistory>>
mlVars == <<ml_learningData, ml_performance, ml_now, ml_ret, ml_call>>
maeVars == <<mae_history, mae_now, mae_ret, mae_call>>
mlTimerVars == <<ml_isLearning, ml_learningInterval, ml_timers>>
maeTimerVars == <<mae_isRunning, mae_analysisInterval, mae_timers>>
timerVars == <<mlTimerVars, maeTimerVars>>
dmVars == <<dm_cache, dm_lastUpdate, dm_pending, dm_now, dm_ret, dm_call, dm_log>>

\* ------------------------------------------------------------------------
\* SmartDecisionEngine
\* ------------------------------------------------------------------------
AgreementThreshold == Rat(6, 10)
BuyThreshold == Rat(3, 10)
MinConfidence == Rat(1, 10)
MaxConfidence == Rat(95, 100)
DiscrepancyPenaltyThreshold == Rat(2, 100)

\* RSI block of analyzeTechnicalSignals
SDE_rsiBlock(mi, pi) ==
    IF ~(Truthy(mi, "rsi") /\ Truthy(pi, "rsi")) THEN
        [present |-> FALSE, value |-> R(0), bull |-> R(0), bear |-> R(0),
         agree |-> FALSE, factors |-> <<>>]
    ELSE
        LET m == mi.rsi
            p == pi.rsi
            agr == Abs(m - p) < 10
        IN  IF m < 30 /\ p < 35 THEN
                [present |-> TRUE, value |-> R(1), bull |-> R(1), bear |-> R(0),
                 agree |-> agr, factors |-> <<"RSI oversold in both sources">>]
            ELSE IF m > 70 /\ p > 65 THEN
                [present |-> TRUE, value |-> R(-1), bull |-> R(0), bear |-> R(1),
                 agree |-> agr, factors |-> <<"RSI overbought in both sources">>]
            ELSE IF (m < 30 /\ p > 35) \/ (m > 70 /\ p < 65) THEN
                [present |-> TRUE, value |-> R(0), bull |-> R(0), bear |-> R(0),
                 agree |-> agr, factors |-> <<"RSI signals diverge between sources">>]
            ELSE
                [present |-> TRUE, value |-> R(0), bull |-> R(0), bear |-> R(0),
                 agree |-> agr, factors |-> <<>>]

\* MACD block of analyzeTechnicalSignals
SDE_macdBlock(mi, pi) ==
    IF ~(Truthy(mi, "macd") /\ Truthy(pi, "macd")) THEN
        [present |-> FALSE, value |-> R(0), bull |-> R(0), bear |-> R(0),
         agree |-> FALSE, factors |-> <<>>]
    ELSE
        LET m == mi.macd
            p == pi.macd
            agr == (m > 0) = (p > 0)
        IN  IF m > 0 /\ p > 0 THEN
                [present |-> TRUE, value |-> R(1), bull |-> R(1), bear |-> R(0),
                 agree |-> agr, factors |-> <<"MACD bullish in both sources">>]
            ELSE IF m < 0 /\ p < 0 THEN
                [present |-> TRUE, value |-> R(-1), bull |-> R(0), bear |-> R(1),
                 agree |-> agr, factors |-> <<"MACD bearish in both sources">>]
            ELSE
                [present |-> TRUE, value |-> R(0), bull |-> R(0), bear |-> R(0),
                 agree |-> agr, factors |-> <<"MACD signals diverge between sources">>]

\* Moving-average block of analyzeTechnicalSignals
SDE_smaBlock(mi, pi) ==
    IF ~(Truthy(mi, "sma20") /\ Truthy(pi, "sma20")) THEN
        [present |-> FALSE, value |-> R(0), bull |-> R(0), bear |-> R(0),
         agree |-> FALSE, factors |-> <<>>]
    ELSE
        LET marketPrice == IF Truthy(mi, "currentPrice") THEN mi.currentPrice ELSE 0
            pocketPrice == IF Truthy(pi, "currentPrice") THEN pi.currentPrice ELSE 0
            marketAboveSMA == marketPrice > mi.sma20
            pocketAboveSMA == pocketPrice > pi.sma20
            agr == marketAboveSMA = pocketAboveSMA
        IN  IF marketAboveSMA /\ pocketAboveSMA THEN
                [present |-> TRUE, value |-> Rat(1, 2), bull |-> Rat(1, 2), bear |-> R(0),
                 agree |-> agr, factors |-> <<"Price above SMA(20) in both sources">>]
            ELSE IF ~marketAboveSMA /\ ~pocketAboveSMA THEN
                [present |-> TRUE, value |-> Rat(-1, 2), bull |-> R(0), bear |-> Rat(1, 2),
                 agree |-> agr, factors |-> <<"Price below SMA(20) in both sources">>]
            ELSE
                [present |-> TRUE, value |-> R(0), bull |-> R(0), bear |-> R(0),
                 agree |-> agr, factors |-> <<"SMA signals diverge between sources">>]

SDE_blocks(mi, pi) ==
    SelectSeq(<<[type |-> "RSI"] @@ SDE_rsiBlock(mi, pi),
                [type |-> "MACD"] @@ SDE_macdBlock(mi, pi),
                [type |-> "SMA"] @@ SDE_smaBlock(mi, pi)>>,
              LAMBDA b : b.present)

RECURSIVE SDE_fold(_, _)
SDE_fold(bs, acc) ==
    IF bs = <<>> THEN acc
    ELSE LET b == Head(bs)
         IN  SDE_fold(Tail(bs),
                [signals |-> Append(acc.signals,
                                [type |-> b.type, value |-> b.value, agreement |-> b.agree]),
                 factors |-> acc.factors \o b.factors,
                 bullishCount |-> RAdd(acc.bullishCount, b.bull),
                 bearishCount |-> RAdd(acc.bearishCount, b.bear),
                 agreementCount |-> acc.agreementCount + (IF b.agree THEN 1 ELSE 0),
                 totalSignals |-> acc.totalSignals + 1])

analyzeTechnicalSignals(mi, pi) ==
    LET t == SDE_fold(SDE_blocks(mi, pi),
                [signals |-> <<>>, factors |-> <<>>, bullishCount |-> R(0),
                 bearishCount |-> R(0), agreementCount |-> 0, totalSignals |-> 0])
    IN  [signals |-> t.signals,
         factors |-> t.factors,
         bullishCount |-> t.bullishCount,
         bearishCount |-> t.bearishCount,
         agreement |-> IF t.totalSignals > 0
                       THEN Rat(t.agreementCount, t.totalSignals) ELSE R(0),
         totalSignals |-> t.totalSignals]

calculateSignalStrength(signals) ==
    LET netBullish == RSub(signals.bullishCount, signals.bearishCount)
        maxPossible == IF signals.totalSignals # 0 THEN signals.totalSignals ELSE 1
    IN  RDiv(netBullish, R(maxPossible))

\* determineAction without the agreement gate
determineAction_noAgreementGate(signalStrength, agreement) ==
    IF RGt(signalStrength, BuyThreshold) THEN "BUY"
    ELSE IF RLt(signalStrength, RNeg(BuyThreshold)) THEN "SELL"
    ELSE "HOLD"

determineAction(signalStrength, agreement) ==
    IF RLt(agreement, AgreementThreshold) THEN "HOLD"
    ELSE IF RGt(signalStrength, BuyThreshold) THEN "BUY"
    ELSE IF RLt(signalStrength, RNeg(BuyThreshold)) THEN "SELL"
    ELSE "HOLD"

\* calculateFinalConfidence without the final clamp
calculateFinalConfidence_unclamped(baseConfidence, signalStrength, agreement, priceDiscrepancy) ==
    LET c1 == RMul(baseConfidence, RAdd(R(1), RAbs(signalStrength)))
        c2 == RMul(c1, RAdd(Rat(1, 2), agreement))
    IN  IF RGt(priceDiscrepancy, Rat(2, 100))
        THEN RMul(c2, RSub(R(1), priceDiscrepancy)) ELSE c2

\* calculateFinalConfidence applying the discrepancy penalty below the 2%
\* threshold instead of above it
calculateFinalConfidence_penaltyBelowThreshold(baseConfidence, signalStrength, agreement, priceDiscrepancy) ==
    LET c1 == RMul(baseConfidence, RAdd(R(1), RAbs(signalStrength)))
        c2 == RMul(c1, RAdd(Rat(1, 2), agreement))
        c3 == IF RLt(priceDiscrepancy, Rat(2, 100))
              THEN RMul(c2, RSub(R(1), priceDiscrepancy)) ELSE c2
    IN  RMax(Rat(1, 10), RMin(Rat(95, 100), c3))

calculateFinalConfidence(baseConfidence, signalStrength, agreement, priceDiscrepancy) ==
    LET c1 == RMul(baseConfidence, RAdd(R(1), RAbs(signalStrength)))
        c2 == RMul(c1, RAdd(Rat(1, 2), agreement))
        c3 == IF RGt(priceDiscrepancy, DiscrepancyPenaltyThreshold)
              THEN RMul(c2, RSub(R(1), priceDiscrepancy)) ELSE c2
    IN  RMax(MinConfidence, RMin(MaxConfidence, c3))

\* the sentences joined into the reasoning text, in order; pct is the
\* toFixed(1) percentage printed inside the first sentence (0 when absent)
SDE_reasons(signals, priceDiscrepancy, action) ==
    (IF RGt(priceDiscrepancy, Rat(2, 100))
        THEN <<"High price discrepancy between sources reduces confidence">>
     ELSE IF RLt(priceDiscrepancy, Rat(1, 100))
        THEN <<"Low price discrepancy indicates good source alignment">>
     ELSE <<>>)
    \o (IF RGt(signals.agreement, Rat(8, 10))
        THEN <<"Strong agreement between market and Pocket Option indicators">>
        ELSE IF RLt(signals.agreement, Rat(1, 2))
        THEN <<"Significant divergence between data sources suggests caution">>
        ELSE <<>>)
    \o signals.factors
    \o (CASE action = "BUY" -> <<"Technical indicators suggest potential upward movement">>
          [] action = "SELL" -> <<"Technical indicators suggest potential downward movement">>
          [] action = "HOLD" -> <<"Mixed or weak signals recommend waiting for clearer direction">>)

SDE_generateReasoning(signals, priceDiscrepancy, action) ==
    [sentences |-> SDE_reasons(signals, priceDiscrepancy, action),
     pct |-> IF RGt(priceDiscrepancy, Rat(2, 100))
             THEN ToFixed1(RMul(priceDiscrepancy, R(100))) ELSE 0]

\* createNeutralSignal reporting full agreement
createNeutralSignal_fullAgreement(symbol, reason) ==
    [symbol |-> symbol, action |-> "HOLD", confidence |-> Rat(1, 2),
     reasoning |-> [sentences |-> <<reason>>, pct |-> 0], marketPrice |-> R(0),
     pocketOptionPrice |-> R(0), priceDiscrepancy |-> R(0), signalStrength |-> R(0),
     agreement |-> R(1), factorsConsidered |-> 0, technicalFactors |-> <<>>]

createNeutralSignal(symbol, reason) ==
    [symbol |-> symbol, action |-> "HOLD", confidence |-> Rat(1, 2),
     reasoning |-> [sentences |-> <<reason>>, pct |-> 0], marketPrice |-> R(0), pocketOptionPrice |-> R(0),
     priceDiscrepancy |-> R(0), signalStrength |-> R(0), agreement |-> R(0),
     factorsConsidered |-> 0, technicalFactors |-> <<>>]

\* the signal object built by generateIntelligentSignal when both sources
\* are present (timestamp omitted: it is never read)
SDE_signal(symbol, marketData, pocketOptionData) ==
    LET marketPrice == R(marketData.currentPrice)
        pocketPrice == R(pocketOptionData.price)
        priceDiscrepancy == RDiv(RAbs(RSub(marketPrice, pocketPrice)), marketPrice)
        baseConfidence == RMax(Rat(3, 10), RSub(R(1), RMul(priceDiscrepancy, R(5))))
        signals == analyzeTechnicalSignals(marketData.technicalIndicators,
                                           pocketOptionData.indicators)
        signalStrength == calculateSignalStrength(signals)
        action == determineAction(signalStrength, signals.agreement)
        confidence == calculateFinalConfidence(baseConfidence, signalStrength,
                                               signals.agreement, priceDiscrepancy)
    IN  [symbol |-> symbol, action |-> action, confidence |-> confidence,
         reasoning |-> SDE_generateReasoning(signals, priceDiscrepancy, action),
         marketPrice |-> marketPrice, pocketOptionPrice |-> pocketPrice,
         priceDiscrepancy |-> RMul(priceDiscrepancy, R(100)),
         signalStrength |-> RAbs(signalStrength),
         agreement |-> signals.agreement,
         factorsConsidered |-> Len(signals.factors),
         technicalFactors |-> signals.factors]

SDE_sumConfidence(h) ==
    Const(h, LAMBDA v : RSum(Array([i \in 1..Len(v) |-> v[i].confidence])))

SDE_updatePerformanceMetrics(metrics, history) ==
    [totalSignals |-> Len(history),
     accuracy |-> metrics.accuracy,
     avgConfidence |-> IF Len(history) > 0
                       THEN RDiv(SDE_sumConfidence(history), R(Len(history)))
                       ELSE metrics.avgConfidence]

\* ------------------------------------------------------------------------
\* EnhancedTradingEngine
\* ------------------------------------------------------------------------
\* Math.sqrt, to SqrtDigits decimals (truncated); exact for 0 and for squares
\* of numbers with at most SqrtDigits decimals
SqrtDigits == 3

RECURSIVE Pow10(_)
Pow10(k) == IF k = 0 THEN 1 ELSE 10 * Pow10(k - 1)

\* floor(a * 10^digits) for a >= 0, by long division
RECURSIVE ScaleFloorStep(_, _, _, _)
ScaleFloorStep(q, r, d, digits) ==
    CASE digits = 0 -> q
      [] digits > 0 /\ q >= 0 /\ r < d ->
            ScaleFloorStep(q * 10 + ((r * 10) \div d), (r * 10) % d, d, digits - 1)
ScaleFloor(a, digits) == ScaleFloorStep(a.n \div a.d, a.n % a.d, a.d, digits)

\* largest r with r * r <= x, for 0 <= x < (SqrtBlock * SqrtBlock)^2: first
\* the block of SqrtBlock consecutive integers that holds r, then r
SqrtBlock == 215
ISqrt(x) ==
    LET h == CHOOSE k \in 0..(SqrtBlock - 1) :
                /\ (k * SqrtBlock) * (k * SqrtBlock) <= x
                /\ x < ((k + 1) * SqrtBlock) * ((k + 1) * SqrtBlock)
    IN  CHOOSE r \in (h * SqrtBlock)..(h * SqrtBlock + SqrtBlock - 1) :
            r * r <= x /\ x < (r + 1) * (r + 1)

MathSqrt(a) ==
    Const(ScaleFloor(a, 2 * SqrtDigits), LAMBDA x : Rat(ISqrt(x), Pow10(SqrtDigits)))

RSquare(a) == RMul(a, a)

\* calculateRSI answering the neutral 50 when there was no loss
calculateRSI_neutralWithoutLoss(prices, period) ==
    LET change(i) == RSub(prices[i + 1], prices[i])
        gains == Array([i \in 1..(Len(prices) - 1) |->
                    IF RSign(change(i)) > 0 THEN change(i) ELSE R(0)])
        losses == Array([i \in 1..(Len(prices) - 1) |->
                    IF RSign(change(i)) < 0 THEN RNeg(change(i)) ELSE R(0)])
        avgGain == RDiv(RSum(SliceLast(gains, period)), R(period))
        avgLoss == RDiv(RSum(SliceLast(losses, period)), R(period))
    IN  IF avgLoss = R(0) THEN R(50)
        ELSE RSub(R(100), RDiv(R(100), RAdd(R(1), RDiv(avgGain, avgLoss))))

\* calculateRSI(prices, period = 14)
calculateRSI(prices, period) ==
    LET change(i) == RSub(prices[i + 1], prices[i])
        gains == Array([i \in 1..(Len(prices) - 1) |->
                    IF RSign(change(i)) > 0 THEN change(i) ELSE R(0)])
        losses == Array([i \in 1..(Len(prices) - 1) |->
                    IF RSign(change(i)) < 0 THEN RNeg(change(i)) ELSE R(0)])
        avgGain == RDiv(RSum(SliceLast(gains, period)), R(period))
        avgLoss == RDiv(RSum(SliceLast(losses, period)), R(period))
    IN  IF avgLoss = R(0) THEN R(100)
        ELSE RSub(R(100), RDiv(R(100), RAdd(R(1), RDiv(avgGain, avgLoss))))

\* calculateSMA(prices, period)
calculateSMA(prices, period) ==
    LET slice == SliceLast(prices, period)
    IN  RDiv(RSum(slice), R(Len(slice)))

\* calculateEMA(prices, period): the recurrence
\*   ema = prices[i] * multiplier + ema * (1 - multiplier), multiplier = 2/(period+1)
\* evaluated in fixed point with EmaDigits decimals
EmaDigits == 6

EmaFixed(a) == RFloor(RMul(a, R(Pow10(EmaDigits))))
\* st = <<i, ema>> is the loop state before iteration i (1-based)
RECURSIVE EmaFrom(_, _, _)
EmaFrom(prices, st, period) ==
    IF st[1] > Len(prices) THEN st[2]
    ELSE EmaFrom(prices,
                 <<st[1] + 1,
                   (EmaFixed(prices[st[1]]) * 2 + st[2] * (period - 1)) \div (period + 1)>>,
                 period)
calculateEMA(prices, period) ==
    Rat(EmaFrom(prices, <<2, EmaFixed(prices[1])>>, period), Pow10(EmaDigits))

\* calculateMACD(prices)
calculateMACD(prices) ==
    Const(calculateEMA(prices, 12), LAMBDA ema12 :
    Const(calculateEMA(prices, 26), LAMBDA ema26 :
    Const(RSub(ema12, ema26), LAMBDA macd :
    Const(calculateEMA(<<macd>>, 9), LAMBDA signal :
        [macd |-> macd, signal |-> signal, histogram |-> RSub(macd, signal)]))))

\* calculateBollingerBands(prices, period = 20, stdDev = 2)
calculateBollingerBands(prices, period, stdDev) ==
    Const(calculateSMA(prices, period), LAMBDA sma :
    Const(SliceLast(prices, period), LAMBDA slice :
    Const(RDiv(RSum(Array([i \in 1..Len(slice) |-> RSquare(RSub(slice[i], sma))])), R(period)),
          LAMBDA variance :
    Const(MathSqrt(variance), LAMBDA std :
        [upper |-> RAdd(sma, RMul(std, R(stdDev))),
         middle |-> sma,
         lower |-> RSub(sma, RMul(std, R(stdDev)))]))))

\* Math.min(...values) and Math.max(...values) of a non-empty array
RMinSeq(s) ==
    CHOOSE m \in {s[i] : i \in 1..Len(s)} : \A i \in 1..Len(s) : RLe(m, s[i])
RMaxSeq(s) ==
    CHOOSE m \in {s[i] : i \in 1..Len(s)} : \A i \in 1..Len(s) : RGe(m, s[i])

\* calculateStochastic(data, period = 14); 0/0 is NaN, x/0 is Infinity
Infinity == [inf |-> TRUE]
calculateStochastic(data, period) ==
    LET slice == SliceLast(data, period)
        low == RMinSeq(Array([i \in 1..Len(slice) |-> slice[i].low]))
        high == RMaxSeq(Array([i \in 1..Len(slice) |-> slice[i].high]))
        current == data[Len(data)].close
    IN  IF high = low
        THEN (IF current = low THEN NaN ELSE Infinity)
        ELSE RMul(RDiv(RSub(current, low), RSub(high, low)), R(100))

\* analyzeVolume(volumes)
ETE_analyzeVolume(volumes) ==
    LET recent == SliceLast(volumes, 5)
        avg == RDiv(RSum(recent), R(Len(recent)))
        current == volumes[Len(volumes)]
    IN  [current |-> current, average |-> avg,
         trend |-> IF RGt(current, RMul(avg, Rat(12, 10))) THEN "increasing"
                   ELSE IF RLt(current, RMul(avg, Rat(8, 10))) THEN "decreasing"
                   ELSE "stable"]

\* calculateVolatility(data, period = 20), for data of at least two bars
ETE_calculateVolatility(data, period) ==
    LET n == IF Len(data) - 1 < period THEN Len(data) - 1 ELSE period
    IN  Const(Array([i \in 1..n |->
                 RDiv(RSub(data[Len(data) - i + 1].close, data[Len(data) - i].close),
                      data[Len(data) - i].close)]), LAMBDA returns :
        Const(RDiv(RSum(returns), R(n)), LAMBDA mean :
        Const(RDiv(RSum(Array([i \in 1..n |-> RSquare(RSub(returns[i], mean))])), R(n)),
              LAMBDA variance : MathSqrt(variance))))

\* calculateTechnicalIndicators(data)
calculateTechnicalIndicators(data) ==
    LET prices == Array([i \in 1..Len(data) |-> data[i].close])
        volumes == Array([i \in 1..Len(data) |-> data[i].volume])
    IN  [rsi |-> calculateRSI(prices, 14),
         macd |-> calculateMACD(prices),
         sma20 |-> calculateSMA(prices, 20),
         sma50 |-> calculateSMA(prices, 50),
         ema12 |-> calculateEMA(prices, 12),
         ema26 |-> calculateEMA(prices, 26),
         bollinger |-> calculateBollingerBands(prices, 20, 2),
         stochastic |-> calculateStochastic(data, 14),
         volume |-> ETE_analyzeVolume(volumes),
         currentPrice |-> prices[Len(prices)]]

\* the four factor rules of analyzeSignal, each [value, name] or absent
ETE_factors(indicators) ==
    (IF RLt(indicators.rsi, R(30)) THEN <<[value |-> R(1), name |-> "RSI oversold"]>>
     ELSE IF RGt(indicators.rsi, R(70))
        THEN <<[value |-> R(-1), name |-> "RSI overbought"]>>
     ELSE <<>>)
    \o (IF RSign(indicators.macd.histogram) > 0
           /\ RGt(indicators.macd.macd, indicators.macd.signal)
        THEN <<[value |-> R(1), name |-> "MACD bullish crossover"]>>
        ELSE IF RSign(indicators.macd.histogram) < 0
                /\ RLt(indicators.macd.macd, indicators.macd.signal)
        THEN <<[value |-> R(-1), name |-> "MACD bearish crossover"]>>
        ELSE <<>>)
    \o (IF RGt(indicators.currentPrice, indicators.sma20)
           /\ RGt(indicators.sma20, indicators.sma50)
        THEN <<[value |-> Rat(1, 2), name |-> "Price above moving averages"]>>
        ELSE IF RLt(indicators.currentPrice, indicators.sma20)
                /\ RLt(indicators.sma20, indicators.sma50)
        THEN <<[value |-> Rat(-1, 2), name |-> "Price below moving averages"]>>
        ELSE <<>>)
    \o (IF RLt(indicators.currentPrice, indicators.bollinger.lower)
        THEN <<[value |-> Rat(3, 10), name |-> "Price near lower Bollinger band"]>>
        ELSE IF RGt(indicators.currentPrice, indicators.bollinger.upper)
        THEN <<[value |-> Rat(-3, 10), name |-> "Price near upper Bollinger band"]>>
        ELSE <<>>)

\* the type chosen with inclusive thresholds
ETE_signalType_inclusive(avgSignal) ==
    IF RGe(avgSignal, Rat(3, 10)) THEN "BUY"
    ELSE IF RLe(avgSignal, Rat(-3, 10)) THEN "SELL"
    ELSE "HOLD"

\* the type chosen from the composite mean (analyzeSignal, lines 104-111)
ETE_signalType(avgSignal) ==
    IF RGt(avgSignal, Rat(3, 10)) THEN "BUY"
    ELSE IF RLt(avgSignal, Rat(-3, 10)) THEN "SELL"
    ELSE "HOLD"

\* analyzeSignal(indicators, marketData)
analyzeSignal(indicators) ==
    LET fs == ETE_factors(indicators)
        signalStrength == RSum(Array([i \in 1..Len(fs) |-> fs[i].value]))
        signalCount == Len(fs)
        avgSignal == IF signalCount > 0 THEN RDiv(signalStrength, R(signalCount)) ELSE R(0)
    IN  [type |-> ETE_signalType(avgSignal),
         strength |-> RAbs(avgSignal),
         factors |-> Array([i \in 1..Len(fs) |-> fs[i].name]),
         rawStrength |-> avgSignal]

\* calculateDynamicConfidence(signal, indicators)
calculateDynamicConfidence(signal, indicators) ==
    LET c0 == Rat(1, 2)
        c1 == RAdd(c0, RMul(signal.strength, Rat(3, 10)))
        c2 == IF RLt(indicators.rsi, R(20)) \/ RGt(indicators.rsi, R(80))
              THEN RAdd(c1, Rat(15, 100)) ELSE c1
        c3 == IF RGt(RAbs(indicators.macd.histogram), Rat(1, 2))
              THEN RAdd(c2, Rat(1, 10)) ELSE c2
        c4 == IF indicators.volume.trend = "increasing"
              THEN RAdd(c3, Rat(1, 10)) ELSE c3
    IN  RMax(Rat(1, 10), RMin(Rat(95, 100), c4))

\* calculateEntryExitZones(marketData, signal); every price is the number of
\* cents printed by toFixed(2), entry is the pair printed as "low - high"
calculateEntryExitZones(marketData, signal) ==
    Const(ETE_calculateVolatility(marketData, 20), LAMBDA volatility :
    LET currentPrice == marketData[Len(marketData)].close
        times(k) == RMul(currentPrice, RAdd(R(1), RMul(volatility, k)))
    IN  IF signal.type = "BUY" THEN
            [entry |-> [low |-> ToFixed2(times(Rat(-1, 2))),
                        high |-> ToFixed2(times(Rat(2, 10)))],
             target |-> ToFixed2(times(R(2))),
             stopLoss |-> ToFixed2(times(Rat(-3, 2)))]
        ELSE IF signal.type = "SELL" THEN
            [entry |-> [low |-> ToFixed2(times(Rat(-2, 10))),
                        high |-> ToFixed2(times(Rat(1, 2)))],
             target |-> ToFixed2(times(R(-2))),
             stopLoss |-> ToFixed2(times(Rat(3, 2)))]
        ELSE
            [entry |-> [low |-> ToFixed2(RMul(currentPrice, Rat(995, 1000))),
                        high |-> ToFixed2(RMul(currentPrice, Rat(1005, 1000)))],
             target |-> ToFixed2(currentPrice),
             stopLoss |-> ToFixed2(currentPrice)])

\* getContractPeriod(timeframe, strength)
getContractPeriod(timeframe, strength) ==
    LET strong == RGt(strength, Rat(7, 10))
    IN  CASE timeframe = "1m" -> IF strong THEN "15 minutes" ELSE "5 minutes"
          [] timeframe = "5m" -> IF strong THEN "1 hour" ELSE "30 minutes"
          [] timeframe = "15m" -> IF strong THEN "4 hours" ELSE "2 hours"
          [] timeframe = "1h" -> IF strong THEN "1 day" ELSE "8 hours"
          [] timeframe = "4h" -> IF strong THEN "3 days" ELSE "1 day"
          [] timeframe = "1d" -> IF strong THEN "1 week" ELSE "3 days"
          [] OTHER -> "2 hours"

\* formatAssetSymbol(symbol)
formatAssetSymbol(symbol) ==
    CASE symbol = "EURUSD=X" -> "EUR/USD"
      [] symbol = "GBPUSD=X" -> "GBP/USD"
      [] symbol = "USDJPY=X" -> "USD/JPY"
      [] symbol = "AUDUSD=X" -> "AUD/USD"
      [] symbol = "USDCAD=X" -> "USD/CAD"
      [] symbol = "BTC-USD" -> "BTC/USDT"
      [] symbol = "ETH-USD" -> "ETH/USDT"
      [] symbol = "BNB-USD" -> "BNB/USDT"
      [] symbol = "ADA-USD" -> "ADA/USDT"
      [] symbol = "SOL-USD" -> "SOL/USDT"
      [] OTHER -> symbol

\* generateReasoning(signal, indicators): the reasons joined by "; "
ETE_generateReasoning(signal, indicators) ==
    LET one(c, text) == IF c THEN <<text>> ELSE <<>>
        increasing == indicators.volume.trend = "increasing"
        reasons ==
            IF signal.type = "BUY" THEN
                one(RLt(indicators.rsi, R(35)), "RSI indicates oversold conditions")
                \o one(RSign(indicators.macd.histogram) > 0, "MACD showing bullish momentum")
                \o one(RGt(indicators.currentPrice, indicators.sma20),
                       "Price above key moving average")
                \o one(increasing, "Strong volume confirmation")
            ELSE IF signal.type = "SELL" THEN
                one(RGt(indicators.rsi, R(65)), "RSI indicates overbought conditions")
                \o one(RSign(indicators.macd.histogram) < 0, "MACD showing bearish momentum")
                \o one(RLt(indicators.currentPrice, indicators.sma20),
                       "Price below key moving average")
                \o one(increasing, "Strong volume confirmation")
            ELSE <<"Mixed signals suggest sideways movement",
                   "Wait for clearer market direction">>
    IN  IF reasons = <<>> THEN <<"Technical analysis inconclusive">> ELSE reasons

\* the object returned by generateStructuredSignal (timestamp omitted)
ETE_structuredSignal(symbol, marketData, timeframe) ==
    Const(calculateTechnicalIndicators(marketData), LAMBDA indicators :
    Const(analyzeSignal(indicators), LAMBDA signal :
    Const(calculateDynamicConfidence(signal, indicators), LAMBDA confidence :
    Const(calculateEntryExitZones(marketData, signal), LAMBDA zones :
        [signal |-> signal.type,
         asset |-> formatAssetSymbol(symbol),
         timeframe |-> timeframe,
         contractPeriod |-> getContractPeriod(timeframe, signal.strength),
         entryZone |-> zones.entry,
         target |-> zones.target,
         stopLoss |-> zones.stopLoss,
         confidence |-> MathRound(RMul(confidence, R(100))),
         reasoning |-> ETE_generateReasoning(signal, indicators)]))))

\* ------------------------------------------------------------------------
\* AdvancedTradingAI
\* ------------------------------------------------------------------------
\* time is counted in days; Date.now() is the variable ai_now
RecentWindowDays == 7
TradeHistoryCap == 1000
ConfidenceThreshold == Rat(75, 100)

\* the stub helpers (lines 468-481)
analyzePriceAction(price, indicators) == [trend |-> "neutral", strength |-> Rat(1, 2)]
AI_analyzeVolume(volume, volumeMA) ==
    [relative |-> RDiv(volume, volumeMA), trend |-> "normal"]
AI_calculateVolatility(indicators) == Rat(2, 100)
calculateTrendStrength(indicators) == Rat(1, 2)
calculateSourceAgreement(market, pocket) == Rat(8, 10)
calculateMarketSentiment(indicators, priceAction) == "neutral"
analyzeMovingAverages(indicators, price) == [signal |-> 0]
analyzeBollingerBands(indicators, price) == [signal |-> 0]
analyzeStochastic(indicators) == [signal |-> 0]
analyzePricePattern(price) == [signal |-> 0]
analyzeVolumeProfile(volume, volumeMA) == [signal |-> 0]
findSimilarPatterns(symbol, analysis) == Null
assessRiskLevel(signals, pattern) == "medium"

\* an upstream step of generateTradeRecommendation dereferences a missing
\* object (TypeError): marketData or pocketOptionData is null, or
\* marketData.technicalIndicators / pocketOptionData.indicators is undefined
AI_upstreamThrows(marketData, pocketOptionData) ==
    \/ marketData = Null
    \/ pocketOptionData = Null
    \/ "technicalIndicators" \notin DOMAIN marketData
    \/ "indicators" \notin DOMAIN pocketOptionData

\* analyzeMarketConditions(marketData, pocketOptionData)
analyzeMarketConditions(marketData, pocketOptionData, now) ==
    LET market == marketData.technicalIndicators
        pocket == pocketOptionData.indicators
        priceAction == analyzePriceAction(marketData.currentPrice, market)
    IN  [priceAction |-> priceAction,
         volumeAnalysis |-> AI_analyzeVolume(marketData.volume, market.volumeMA),
         volatility |-> AI_calculateVolatility(market),
         trendStrength |-> calculateTrendStrength(market),
         sourceAgreement |-> calculateSourceAgreement(market, pocket),
         sentiment |-> calculateMarketSentiment(market, priceAction),
         timestamp |-> now]

\* analyzeRSI(marketRSI, pocketRSI)
analyzeRSI(marketRSI, pocketRSI) ==
    LET avgRSI == RDiv(RAdd(marketRSI, pocketRSI), R(2))
    IN  [signal |-> IF RGt(avgRSI, R(70)) THEN -1
                    ELSE IF RLt(avgRSI, R(30)) THEN 1 ELSE 0,
         value |-> avgRSI,
         agreement |-> RLt(RAbs(RSub(marketRSI, pocketRSI)), R(10))]

\* analyzeMacd(marketIndicators, pocketIndicators)
analyzeMacd(marketIndicators, pocketIndicators) ==
    LET marketMACD == marketIndicators.macd
        pocketMACD == pocketIndicators.macd
        avgMACD == RDiv(RAdd(marketMACD, pocketMACD), R(2))
    IN  [signal |-> IF RSign(avgMACD) < 0 THEN -1
                    ELSE IF RSign(avgMACD) > 0 THEN 1 ELSE 0,
         value |-> avgMACD,
         agreement |-> (RSign(marketMACD) > 0) = (RSign(pocketMACD) > 0)]

\* calculateCompositeSignal(signals): every entry of signals has a signal field
calculateCompositeSignal(signalValues) ==
    LET RECURSIVE Total(_)
        Total(q) == IF q = <<>> THEN 0 ELSE Head(q) + Total(Tail(q))
        totalSignal == Total(signalValues)
        signalCount == Len(signalValues)
    IN  [strength |-> IF signalCount > 0 THEN RAbs(Rat(totalSignal, signalCount)) ELSE R(0),
         direction |-> IF totalSignal > 0 THEN 1 ELSE IF totalSignal < 0 THEN -1 ELSE 0]

\* calculateAdvancedSignals(marketData, pocketOptionData)
calculateAdvancedSignals(marketData, pocketOptionData) ==
    LET ti == marketData.technicalIndicators
        rsi == analyzeRSI(ti.rsi, pocketOptionData.indicators.rsi)
        macd == analyzeMacd(ti, pocketOptionData.indicators)
        movingAverages == analyzeMovingAverages(ti, marketData.currentPrice)
        bollingerBands == analyzeBollingerBands(ti, marketData.currentPrice)
        stochastic == analyzeStochastic(ti)
        pricePattern == analyzePricePattern(marketData.currentPrice)
        volumeProfile == analyzeVolumeProfile(marketData.volume, ti.volumeMA)
    IN  [rsi |-> rsi, macd |-> macd, movingAverages |-> movingAverages,
         bollingerBands |-> bollingerBands, stochastic |-> stochastic,
         pricePattern |-> pricePattern, volumeProfile |-> volumeProfile,
         composite |-> calculateCompositeSignal(
            <<rsi.signal, macd.signal, movingAverages.signal, bollingerBands.signal,
              stochastic.signal, pricePattern.signal, volumeProfile.signal>>)]

\* getRecentPerformance(symbol): t.success is undefined (falsy) on a record
\* that has no outcome yet
getRecentPerformance(tradeHistory, symbol, now) ==
    LET recentTrades ==
            SliceLast(SelectSeq(tradeHistory,
                        LAMBDA t : t.symbol = symbol /\ t.timestamp > now - RecentWindowDays),
                      10)
        successful == Len(SelectSeq(recentTrades,
                        LAMBDA t : "success" \in DOMAIN t /\ t.success))
    IN  IF Len(recentTrades) = 0 THEN [accuracy |-> Rat(1, 2), totalTrades |-> 0]
        ELSE [accuracy |-> Rat(successful, Len(recentTrades)),
              totalTrades |-> Len(recentTrades)]

\* applyMachineLearning(symbol, signals, historicalPattern)
applyMachineLearning(recentPerformance, signals, historicalPattern) ==
    LET base == IF historicalPattern # Null
                THEN [patternMatch |-> historicalPattern.similarity,
                      successProbability |-> historicalPattern.successRate,
                      recommendedHoldTime |-> historicalPattern.avgHoldTime]
                ELSE [patternMatch |-> R(0), successProbability |-> Rat(1, 2),
                      recommendedHoldTime |-> "2-4 hours"]
        confidence == IF RGt(recentPerformance.accuracy, Rat(7, 10))
                        THEN RMul(Rat(1, 2), Rat(12, 10))
                      ELSE IF RLt(recentPerformance.accuracy, Rat(4, 10))
                        THEN RMul(Rat(1, 2), Rat(8, 10))
                      ELSE Rat(1, 2)
    IN  [patternMatch |-> base.patternMatch,
         successProbability |-> base.successProbability,
         riskLevel |-> assessRiskLevel(signals, historicalPattern),
         recommendedHoldTime |-> base.recommendedHoldTime,
         confidence |-> confidence]

\* calculateOptimalEntry(signals, marketAnalysis)
calculateOptimalEntry(signals, marketAnalysis) ==
    IF RGt(signals.composite.strength, Rat(8, 10))
        THEN [bestTime |-> "Now", window |-> "0-5 minutes"]
    ELSE IF RGt(signals.composite.strength, Rat(6, 10))
        THEN [bestTime |-> "Next 30 minutes", window |-> "15-60 minutes"]
    ELSE [bestTime |-> "Wait for confirmation", window |-> "1-4 hours"]

\* calculatePositionSize(confidence, riskLevel)
calculatePositionSize(confidence, riskLevel) ==
    LET baseSize == Rat(1, 10)
        mult == CASE riskLevel = "low" -> Rat(15, 10)
                  [] riskLevel = "medium" -> R(1)
                  [] riskLevel = "high" -> Rat(1, 2)
        adjustedSize == RMul(RMul(baseSize, confidence), mult)
        percentage == RMin(RMax(adjustedSize, Rat(2, 100)), Rat(25, 100))
    IN  [percentage |-> MathRound(RMul(percentage, R(100))),
         amount |-> MathRound(RMul(percentage, R(10000)))]

\* the stop-loss and take-profit levels of calculateRiskManagement before
\* they are rounded (lines 227-236), for BUY and SELL
AI_riskLevels(entryPrice, action, volatility) ==
    LET volatilityMultiplier == RMax(RMul(volatility, R(2)), Rat(2, 100))
    IN  IF action = "BUY"
        THEN [stopLoss |-> RMul(entryPrice, RSub(R(1), volatilityMultiplier)),
              takeProfit |-> RMul(entryPrice,
                                  RAdd(R(1), RMul(volatilityMultiplier, R(2))))]
        ELSE [stopLoss |-> RMul(entryPrice, RAdd(R(1), volatilityMultiplier)),
              takeProfit |-> RMul(entryPrice,
                                  RSub(R(1), RMul(volatilityMultiplier, R(2))))]

\* calculateRiskManagement treating every action but BUY as HOLD
calculateRiskManagement_buyOnly(entryPrice, action, volatility) ==
    IF action # "BUY"
    THEN [stopLoss |-> R(0), takeProfit |-> R(0), ratio |-> R(0)]
    ELSE LET lv == AI_riskLevels(entryPrice, action, volatility)
             ratio == RDiv(RAbs(RSub(lv.takeProfit, entryPrice)),
                           RAbs(RSub(entryPrice, lv.stopLoss)))
         IN  [stopLoss |-> Rat(MathRound(RMul(lv.stopLoss, R(100))), 100),
              takeProfit |-> Rat(MathRound(RMul(lv.takeProfit, R(100))), 100),
              ratio |-> Rat(MathRound(RMul(ratio, R(10))), 10)]

\* calculateRiskManagement putting both levels of a HOLD at the entry price
calculateRiskManagement_holdAtEntry(entryPrice, action, volatility) ==
    IF action # "BUY" /\ action # "SELL"
    THEN [stopLoss |-> entryPrice, takeProfit |-> entryPrice, ratio |-> R(0)]
    ELSE calculateRiskManagement_buyOnly(entryPrice, action, volatility)

\* calculateRiskManagement(entryPrice, action, volatility)
calculateRiskManagement(entryPrice, action, volatility) ==
    IF action # "BUY" /\ action # "SELL"
    THEN [stopLoss |-> R(0), takeProfit |-> R(0), ratio |-> R(0)]
    ELSE LET lv == AI_riskLevels(entryPrice, action, volatility)
             ratio == RDiv(RAbs(RSub(lv.takeProfit, entryPrice)),
                           RAbs(RSub(entryPrice, lv.stopLoss)))
         IN  [stopLoss |-> Rat(MathRound(RMul(lv.stopLoss, R(100))), 100),
              takeProfit |-> Rat(MathRound(RMul(lv.takeProfit, R(100))), 100),
              ratio |-> Rat(MathRound(RMul(ratio, R(10))), 10)]

\* generateExitConditions(signals, duration)
generateExitConditions(signals, duration) ==
    (IF signals.rsi.signal # 0
        THEN <<IF signals.rsi.signal > 0 THEN "RSI overbought reversal"
               ELSE "RSI oversold reversal">>
        ELSE <<>>)
    \o (IF signals.macd.signal # 0 THEN <<"MACD signal line cross">> ELSE <<>>)
    \o <<"Time-based exit", "Stop loss or take profit hit">>

\* estimateHoldTime(signals, mlInsights, trendStrength); duration in hours
estimateHoldTime(signals, mlInsights, trendStrength) ==
    LET d0 == R(4)
        d1 == IF RGt(trendStrength, Rat(8, 10)) THEN RMul(d0, R(2)) ELSE d0
        d2 == IF RLt(trendStrength, Rat(3, 10)) THEN RMul(d1, Rat(1, 2)) ELSE d1
        d3 == IF RGt(signals.composite.strength, Rat(8, 10))
              THEN RMul(d2, Rat(15, 10)) ELSE d2
        duration == MathRound(d3)
    IN  [duration |-> duration,
         strategy |-> IF duration > 8 THEN "swing trading"
                      ELSE IF duration > 2 THEN "day trading" ELSE "scalp trading",
         exitConditions |-> generateExitConditions(signals, duration)]

\* generateReasoning(signals, mlInsights, marketAnalysis)
AI_generateReasoning(signals, mlInsights, marketAnalysis) ==
    LET one(c, text) == IF c THEN <<text>> ELSE <<>>
    IN  one(signals.rsi.signal > 0, "RSI indicates oversold conditions")
        \o one(signals.rsi.signal < 0, "RSI indicates overbought conditions")
        \o one(signals.macd.signal > 0, "MACD shows bullish momentum")
        \o one(signals.macd.signal < 0, "MACD shows bearish momentum")
        \o one(RGt(mlInsights.patternMatch, Rat(7, 10)),
               "Strong pattern match with historical data")
        \o one(RGt(marketAnalysis.sourceAgreement, Rat(8, 10)),
               "High agreement between market and Pocket Option data")
        \o one(RGt(marketAnalysis.trendStrength, Rat(7, 10)),
               "Strong trend momentum detected")

\* generateFinalRecommendation(symbol, marketAnalysis, signals, mlInsights, currentPrice)
generateFinalRecommendation(symbol, marketAnalysis, signals, mlInsights, currentPrice, now) ==
    LET composite == signals.composite
        confidence == RMin(RMul(mlInsights.confidence, marketAnalysis.sourceAgreement),
                           Rat(95, 100))
        action == IF RGt(composite.strength, Rat(6, 10))
                     /\ RGt(confidence, ConfidenceThreshold)
                  THEN (IF composite.direction > 0 THEN "BUY" ELSE "SELL")
                  ELSE "HOLD"
        entryTiming == calculateOptimalEntry(signals, marketAnalysis)
        positionSize == calculatePositionSize(confidence, mlInsights.riskLevel)
        riskManagement == calculateRiskManagement(currentPrice, action,
                                                  marketAnalysis.volatility)
        holdTime == estimateHoldTime(signals, mlInsights, marketAnalysis.trendStrength)
    IN  [symbol |-> symbol,
         action |-> action,
         confidence |-> MathRound(RMul(confidence, R(100))),
         entryPrice |-> currentPrice,
         bestEntryTime |-> entryTiming.bestTime,
         entryWindow |-> entryTiming.window,
         positionSize |-> positionSize.percentage,
         positionAmount |-> positionSize.amount,
         stopLoss |-> riskManagement.stopLoss,
         takeProfit |-> riskManagement.takeProfit,
         riskRewardRatio |-> riskManagement.ratio,
         estimatedHoldTime |-> holdTime.duration,
         exitStrategy |-> holdTime.strategy,
         signalStrength |-> MathRound(RMul(composite.strength, R(100))),
         riskLevel |-> mlInsights.riskLevel,
         patternMatch |-> MathRound(RMul(mlInsights.patternMatch, R(100))),
         reasoning |-> AI_generateReasoning(signals, mlInsights, marketAnalysis),
         successProbability |-> MathRound(RMul(mlInsights.successProbability, R(100))),
         timestamp |-> now]

\* createSafeRecommendation with the confidence left out
createSafeRecommendation_noConfidence(symbol) ==
    [symbol |-> symbol, action |-> "HOLD",
     reasoning |-> <<"Insufficient data for reliable analysis">>,
     riskLevel |-> "high", bestEntryTime |-> "Wait", estimatedHoldTime |-> "N/A"]

\* createSafeRecommendation(symbol)
createSafeRecommendation(symbol) ==
    [symbol |-> symbol, action |-> "HOLD", confidence |-> 50,
     reasoning |-> <<"Insufficient data for reliable analysis">>,
     riskLevel |-> "high", bestEntryTime |-> "Wait", estimatedHoldTime |-> "N/A"]

\* the body of the try block of generateTradeRecommendation up to the
\* recommendation (lines 24-43), for inputs on which no step throws
AI_recommendation(tradeHistory, symbol, marketData, pocketOptionData, now) ==
    LET marketAnalysis == analyzeMarketConditions(marketData, pocketOptionData, now)
        historicalPattern == findSimilarPatterns(symbol, marketAnalysis)
        signals == calculateAdvancedSignals(marketData, pocketOptionData)
        mlInsights == applyMachineLearning(getRecentPerformance(tradeHistory, symbol, now),
                                           signals, historicalPattern)
    IN  generateFinalRecommendation(symbol, marketAnalysis, signals, mlInsights,
                                    marketData.currentPrice, now)

\* the id built by storeForLearning, `trade_${Date.now()}_${random}`: the
\* random suffix is modelled by a serial number
AI_tradeId(now, serial) == [prefix |-> "trade", time |-> now, rnd |-> serial]

\* storeForLearning trimming to the oldest 1000 records
storeForLearning_keepOldest(tradeHistory, symbol, recommendation, marketAnalysis, now, serial) ==
    LET tradeRecord == [id |-> [prefix |-> "trade", time |-> now, rnd |-> serial],
                        symbol |-> symbol, recommendation |-> recommendation,
                        marketAnalysis |-> marketAnalysis, timestamp |-> now]
        pushed == Append(tradeHistory, tradeRecord)
    IN  IF Len(pushed) > 1000 THEN SubSeq(pushed, 1, 1000) ELSE pushed

\* storeForLearning(symbol, recommendation, marketAnalysis)
storeForLearning(tradeHistory, symbol, recommendation, marketAnalysis, now, serial) ==
    LET tradeRecord == [id |-> AI_tradeId(now, serial), symbol |-> symbol,
                        recommendation |-> recommendation,
                        marketAnalysis |-> marketAnalysis, timestamp |-> now]
        pushed == Append(tradeHistory, tradeRecord)
    IN  IF Len(pushed) > TradeHistoryCap THEN SliceLast(pushed, TradeHistoryCap)
        ELSE pushed

\* updatePerformanceMetrics(trade)
AI_updatePerformanceMetrics(metrics, trade) ==
    LET total == metrics.totalTrades + 1
        succ == metrics.successfulTrades + (IF trade.success THEN 1 ELSE 0)
    IN  [totalTrades |-> total,
         successfulTrades |-> succ,
         accuracy |-> Rat(succ, total),
         totalProfit |-> RAdd(metrics.totalProfit, trade.actualProfit)]

\* the record updated by learnFromTrade (lines 295-298)
AI_withOutcome(trade, outcome) ==
    [outcome |-> outcome,
     actualProfit |-> outcome.profit,
     actualHoldTime |-> outcome.holdTime,
     success |-> RSign(outcome.profit) > 0] @@ trade

\* index of the first record with the given id, 0 when there is none
\* (Array.prototype.find)
AI_findTrade(tradeHistory, tradeId) ==
    LET hits == {i \in 1..Len(tradeHistory) : tradeHistory[i].id = tradeId}
    IN  IF hits = {} THEN 0 ELSE CHOOSE i \in hits : \A j \in hits : i <= j

\* --- inputs of the SmartDecisionEngine calls -------------------------------
MaxSignals == 2

SDE_Symbols == {"AAPL"}

SDE_MarketData ==
    {Null,
     [currentPrice |-> 100, technicalIndicators |-> [rsi |-> 20]],
     [currentPrice |-> 100,
      technicalIndicators |-> [rsi |-> 20, macd |-> 1, sma20 |-> 90, currentPrice |-> 100]],
     [currentPrice |-> 100, technicalIndicators |-> [rsi |-> 75, macd |-> 1]],
     [currentPrice |-> 100,
      technicalIndicators |-> [rsi |-> 50, macd |-> 0, sma20 |-> 90]]}

SDE_PocketData ==
    {Null,
     [price |-> 100, indicators |-> [rsi |-> 34]],
     [price |-> 103,
      indicators |-> [rsi |-> 34, macd |-> 1, sma20 |-> 90, currentPrice |-> 103]],
     [price |-> 100,
      indicators |-> [rsi |-> 70, macd |-> -1, sma20 |-> 110, currentPrice |-> 100]],
     [price |-> 130, indicators |-> [rsi |-> 25, macd |-> 1]],
     [price |-> 101,
      indicators |-> [rsi |-> 22, macd |-> 1, sma20 |-> 90, currentPrice |-> 101]]}

\* indicator objects for a direct call of analyzeTechnicalSignals
SDE_MarketIndicators ==
    {[rsi |-> 10], [rsi |-> 29], [rsi |-> 50], [rsi |-> 75], [macd |-> 1]}
SDE_PocketIndicators ==
    {[rsi |-> 25], [rsi |-> 36], [rsi |-> 45], [rsi |-> 72],
     [rsi |-> 50, macd |-> 1]}

SDE_Strengths == {R(-1), Rat(-3, 10), R(0), Rat(3, 10), Rat(1, 3), R(1)}
SDE_Agreements == {R(0), Rat(1, 2), Rat(6, 10), R(1)}

\* --- SmartDecisionEngine operations ---------------------------------------
SDE_Init ==
    /\ sde_history = <<>>
    /\ sde_metrics = [totalSignals |-> 0, accuracy |-> R(0), avgConfidence |-> R(0)]
    /\ sde_ret = Null
    /\ sde_call = [op |-> "none"]

\* generateIntelligentSignal(symbol, marketData, pocketOptionData)
generateIntelligentSignal(symbol, marketData, pocketOptionData) ==
    /\ engine = "SmartDecisionEngine"
    /\ sde_call' = [op |-> "generateIntelligentSignal", symbol |-> symbol,
                    marketData |-> marketData, pocketOptionData |-> pocketOptionData]
    /\ IF marketData = Null \/ pocketOptionData = Null
       THEN /\ sde_ret' = createNeutralSignal(symbol, "Insufficient data")
            /\ UNCHANGED <<sde_history, sde_metrics>>
       ELSE LET signal == SDE_signal(symbol, marketData, pocketOptionData)
            IN  /\ sde_history' = Append(sde_history, signal)
                /\ sde_metrics' = SDE_updatePerformanceMetrics(sde_metrics,
                                                               Append(sde_history, signal))
                /\ sde_ret' = signal
    /\ UNCHANGED <<engine, eteVars, aiVars, mlVars, maeVars, timerVars, dmVars>>

\* a direct call of determineAction(signalStrength, agreement); the method
\* reads only its arguments and the thresholds, so it is called on the engine
\* as constructed
callDetermineAction(signalStrength, agreement) ==
    /\ engine = "SmartDecisionEngine"
    /\ sde_call.op = "none"
    /\ sde_call' = [op |-> "determineAction", signalStrength |-> signalStrength,
                    agreement |-> agreement]
    /\ sde_ret' = [action |-> determineAction(signalStrength, agreement)]
    /\ UNCHANGED <<sde_history, sde_metrics>>
    /\ UNCHANGED <<engine, eteVars, aiVars, mlVars, maeVars, timerVars, dmVars>>

\* a direct call of analyzeTechnicalSignals(marketIndicators, pocketIndicators);
\* the method reads only its arguments, so it is called on the engine as
\* constructed
callAnalyzeTechnicalSignals(marketIndicators, pocketIndicators) ==
    /\ engine = "SmartDecisionEngine"
    /\ sde_call.op = "none"
    /\ sde_call' = [op |-> "analyzeTechnicalSignals",
                    marketIndicators |-> marketIndicators,
                    pocketIndicators |-> pocketIndicators]
    /\ sde_ret' = analyzeTechnicalSignals(marketIndicators, pocketIndicators)
    /\ UNCHANGED <<sde_history, sde_metrics>>
    /\ UNCHANGED <<engine, eteVars, aiVars, mlVars, maeVars, timerVars, dmVars>>

\* the limits a caller passes to the history queries; 10 is the default
HistoryLimits == {0, 1, 2, 10}

\* getSignalHistory(limit = 10)
getSignalHistory(limit) ==
    /\ engine = "SmartDecisionEngine"
    /\ sde_call' = [op |-> "getSignalHistory", limit |-> limit]
    /\ sde_ret' = [value |-> SliceNeg(sde_history, limit)]
    /\ UNCHANGED <<sde_history, sde_metrics>>
    /\ UNCHANGED <<engine, eteVars, aiVars, mlVars, maeVars, timerVars, dmVars>>

SDE_generateSome ==
    /\ Len(sde_history) < MaxSignals
    /\ \E symbol \in SDE_Symbols, md \in SDE_MarketData, pd \in SDE_PocketData :
          generateIntelligentSignal(symbol, md, pd)

SDE_Next ==
    \/ SDE_generateSome
    \/ \E s \in SDE_Strengths, a \in SDE_Agreements : callDetermineAction(s, a)
    \/ \E mi \in SDE_MarketIndicators, pi \in SDE_PocketIndicators :
          callAnalyzeTechnicalSignals(mi, pi)
    \/ \E limit \in HistoryLimits : getSignalHistory(limit)

\* --- inputs of the EnhancedTradingEngine calls -----------------------------
\* A bar series is `pad` bars closing at `base` followed by a free tail of
\* 1..MaxTail bars; all bars but the last trade the volume BaseVolume.
MaxTail == 2
LongPad == 19
BaseVolume == 2

ETE_Closes == {Rat(1, 8), Rat(1, 4), Rat(1, 2)}
ETE_PadLengths == {1, LongPad}
ETE_LastVolumes == {1, 2, 4}
ETE_Tails == UNION {[1..k -> ETE_Closes] : k \in 1..MaxTail}
ETE_Symbols == {"EURUSD=X", "AAPL"}
ETE_Timeframes == {"15m", "2h"}

Bar(close, volume) ==
    [close |-> close, high |-> close, low |-> close, volume |-> R(volume)]

MakeBars(base, pad, tail, lastVolume) ==
    Array([i \in 1..(pad + Len(tail)) |->
        Bar(IF i <= pad THEN base ELSE tail[i - pad],
            IF i = pad + Len(tail) THEN lastVolume ELSE BaseVolume)])

\* bar series of 20 bars whose closes rise at every bar by a half or a third
\* of the close before (after a first doubling), in units of 1/scale; all
\* bars trade the volume BaseVolume
ETE_RisingUnits ==
    <<1, 2, 3, 4, 6, 8, 12, 16, 24, 32, 48, 64, 96, 128, 192, 256, 384, 512, 768, 1024>>
ETE_RisingScales == {64, 128}
ETE_RisingBars(scale) ==
    Array([i \in 1..Len(ETE_RisingUnits) |->
        Bar(Rat(ETE_RisingUnits[i], scale), BaseVolume)])

ETE_BarSeries ==
    {MakeBars(base, pad, tail, v) :
        base \in ETE_Closes, pad \in ETE_PadLengths, tail \in ETE_Tails,
        v \in ETE_LastVolumes}
    \cup {ETE_RisingBars(scale) : scale \in ETE_RisingScales}

\* --- EnhancedTradingEngine operations -------------------------------------
ETE_Init ==
    /\ ete_ret = Null
    /\ ete_call = [op |-> "none"]

\* generateStructuredSignal(symbol, marketData, timeframe); the engine keeps
\* no state between calls, so a behaviour makes one call
generateStructuredSignal(symbol, marketData, timeframe) ==
    /\ engine = "EnhancedTradingEngine"
    /\ ete_call.op = "none"
    /\ ete_call' = [op |-> "generateStructuredSignal", symbol |-> symbol,
                    marketData |-> marketData, timeframe |-> timeframe]
    /\ ete_ret' = ETE_structuredSignal(symbol, marketData, timeframe)
    /\ UNCHANGED <<engine, sdeVars, aiVars, mlVars, maeVars, timerVars, dmVars>>

\* the closing prices of the bar series
ETE_PriceSeries ==
    {Array([i \in 1..Len(bars) |-> bars[i].close]) : bars \in ETE_BarSeries}

\* a direct call of calculateRSI(prices) with the default period; the method
\* reads only its arguments
callCalculateRSI(prices) ==
    /\ engine = "EnhancedTradingEngine"
    /\ ete_call.op = "none"
    /\ ete_call' = [op |-> "calculateRSI", prices |-> prices]
    /\ ete_ret' = [value |-> calculateRSI(prices, 14)]
    /\ UNCHANGED <<engine, sdeVars, aiVars, mlVars, maeVars, timerVars, dmVars>>

\* a direct call of calculateStochastic(data) with the default period; the
\* method reads only its arguments
callCalculateStochastic(data) ==
    /\ engine = "EnhancedTradingEngine"
    /\ ete_call.op = "none"
    /\ ete_call' = [op |-> "calculateStochastic", data |-> data]
    /\ ete_ret' = [value |-> calculateStochastic(data, 14)]
    /\ UNCHANGED <<engine, sdeVars, aiVars, mlVars, maeVars, timerVars, dmVars>>

\* a direct call of calculateMACD(prices); the method reads only its argument
callCalculateMACD(prices) ==
    /\ engine = "EnhancedTradingEngine"
    /\ ete_call.op = "none"
    /\ ete_call' = [op |-> "calculateMACD", prices |-> prices]
    /\ ete_ret' = calculateMACD(prices)
    /\ UNCHANGED <<engine, sdeVars, aiVars, mlVars, maeVars, timerVars, dmVars>>

ETE_Next ==
    \/ \E symbol \in ETE_Symbols, md \in ETE_BarSeries, tf \in ETE_Timeframes :
          generateStructuredSignal(symbol, md, tf)
    \/ \E prices \in ETE_PriceSeries : callCalculateRSI(prices)
    \/ \E data \in ETE_BarSeries : callCalculateStochastic(data)
    \/ \E prices \in ETE_PriceSeries : callCalculateMACD(prices)

\* --- inputs of the AdvancedTradingAI calls ---------------------------------
MaxTrades == 2
MaxOutcomes == 1

AI_Symbols == {"AAPL", "BTC-USD"}
AI_TimePoints == {0, 6, 7}

AI_MarketData ==
    {Null,
     [currentPrice |-> R(100), volume |-> R(1000)],
     [currentPrice |-> R(100), volume |-> R(1000),
      technicalIndicators |-> [rsi |-> R(25), macd |-> R(1), volumeMA |-> R(500)]]}

AI_PocketData ==
    {Null,
     [price |-> R(101), indicators |-> [rsi |-> R(28), macd |-> R(1)]]}

AI_Outcomes ==
    {[profit |-> Rat(3, 2), holdTime |-> 3, success |-> TRUE],
     [profit |-> R(-1), holdTime |-> 2, success |-> FALSE]}

AI_EntryPrices == {R(100), Rat(9, 8), Rat(1, 100)}
AI_Volatilities == {R(0), Rat(1, 200), Rat(2, 100), Rat(1, 2)}
AI_Actions == {"BUY", "SELL", "HOLD"}

\* localStorage before the engine is constructed: nothing saved
EmptyStorage == [saved |-> FALSE]
AI_InitialStorage == {EmptyStorage}

\* loadTradeHistory()
loadTradeHistory(storage) == IF storage.saved THEN storage.history ELSE <<>>

\* the trade ids a caller may pass to learnFromTrade: the ids of the oldest
\* and of the two newest records, and an id no record has
AI_UnknownId == [prefix |-> "sim", time |-> 0]
AI_TradeIds(tradeHistory) ==
    {tradeHistory[i].id :
        i \in {j \in {1, Len(tradeHistory) - 1, Len(tradeHistory)} :
                 j >= 1 /\ j <= Len(tradeHistory)}}
    \cup {AI_UnknownId}

\* --- AdvancedTradingAI operations -----------------------------------------
\* the engine constructed over the given localStorage (constructor, lines 5-19)
AI_Constructed(storage) ==
    /\ ai_storage = storage
    /\ ai_history = loadTradeHistory(storage)
    /\ ai_metrics = [totalTrades |-> 0, successfulTrades |-> 0, accuracy |-> R(0),
                     totalProfit |-> R(0)]
    /\ ai_now = 0
    /\ ai_serial = 0
    /\ ai_ret = [completion |-> "none"]
    /\ ai_call = [op |-> "none"]

AI_Init == \E storage \in AI_InitialStorage : AI_Constructed(storage)

\* generateTradeRecommendation(symbol, marketData, pocketOptionData)
generateTradeRecommendation(symbol, marketData, pocketOptionData) ==
    /\ engine = "AdvancedTradingAI"
    /\ ai_serial < MaxTrades
    /\ ai_call' = [op |-> "generateTradeRecommendation", symbol |-> symbol,
                   marketData |-> marketData, pocketOptionData |-> pocketOptionData]
    /\ IF AI_upstreamThrows(marketData, pocketOptionData)
       THEN \* catch (error): return this.createSafeRecommendation(symbol)
            /\ ai_ret' = [completion |-> "return",
                          value |-> createSafeRecommendation(symbol)]
            /\ UNCHANGED <<ai_history, ai_serial>>
       ELSE LET recommendation == AI_recommendation(ai_history, symbol, marketData,
                                                    pocketOptionData, ai_now)
                marketAnalysis == analyzeMarketConditions(marketData, pocketOptionData,
                                                          ai_now)
            IN  /\ ai_history' = storeForLearning(ai_history, symbol, recommendation,
                                                  marketAnalysis, ai_now, ai_serial + 1)
                /\ ai_serial' = ai_serial + 1
                /\ ai_ret' = [completion |-> "return", value |-> recommendation]
    /\ UNCHANGED <<ai_metrics, ai_storage, ai_now, sig_tradeHistory>>
    /\ UNCHANGED <<engine, sdeVars, eteVars, mlVars, maeVars, timerVars, dmVars>>

\* learnFromTrade(tradeId, outcome); the caller says what becomes of the
\* component state
learnFromTrade(tradeId, outcome) ==
    /\ engine = "AdvancedTradingAI"
    /\ ai_metrics.totalTrades < MaxOutcomes
    /\ ai_call' = [op |-> "learnFromTrade", tradeId |-> tradeId, outcome |-> outcome]
    /\ ai_ret' = [completion |-> "return"]
    /\ LET idx == AI_findTrade(ai_history, tradeId)
       IN  IF idx = 0
           THEN UNCHANGED <<ai_history, ai_metrics, ai_storage>>
           ELSE LET trade == AI_withOutcome(ai_history[idx], outcome)
                    updated == [ai_history EXCEPT ![idx] = trade]
                IN  /\ ai_history' = updated
                    /\ ai_metrics' = AI_updatePerformanceMetrics(ai_metrics, trade)
                    \* saveLearningData()
                    /\ ai_storage' = [saved |-> TRUE, history |-> updated]
    /\ UNCHANGED <<ai_now, ai_serial>>
    /\ UNCHANGED <<engine, sdeVars, eteVars, mlVars, maeVars, timerVars, dmVars>>

\* a direct call of calculateRiskManagement(entryPrice, action, volatility);
\* the method reads no field of the engine, so it is called on the engine as
\* constructed
callCalculateRiskManagement(entryPrice, action, volatility) ==
    /\ engine = "AdvancedTradingAI"
    /\ ai_call.op = "none"
    /\ ai_call' = [op |-> "calculateRiskManagement", entryPrice |-> entryPrice,
                   action |-> action, volatility |-> volatility]
    /\ ai_ret' = [completion |-> "return",
                  value |-> calculateRiskManagement(entryPrice, action, volatility)]
    /\ UNCHANGED <<ai_history, ai_metrics, ai_storage, ai_now, ai_serial,
                   sig_tradeHistory>>
    /\ UNCHANGED <<engine, sdeVars, eteVars, mlVars, maeVars, timerVars, dmVars>>

\* the arguments of a direct call of estimateHoldTime: trend strengths and
\* composite strengths on both sides of the thresholds 0.3 and 0.8
AI_TrendStrengths == {Rat(2, 10), Rat(3, 10), Rat(1, 2), Rat(8, 10), Rat(9, 10)}
AI_CompositeStrengths == {Rat(1, 2), Rat(8, 10), R(1)}
AI_HoldSignals ==
    {[rsi |-> [signal |-> r], macd |-> [signal |-> 0], composite |-> [strength |-> c]] :
        r \in {-1, 0}, c \in AI_CompositeStrengths}

\* a direct call of estimateHoldTime(signals, mlInsights, trendStrength); the
\* method reads no field of the engine and does not read mlInsights
callEstimateHoldTime(signals, trendStrength) ==
    /\ engine = "AdvancedTradingAI"
    /\ ai_call.op = "none"
    /\ ai_call' = [op |-> "estimateHoldTime", signals |-> signals,
                   trendStrength |-> trendStrength]
    /\ ai_ret' = [completion |-> "return",
                  value |-> estimateHoldTime(signals, Null, trendStrength)]
    /\ UNCHANGED <<ai_history, ai_metrics, ai_storage, ai_now, ai_serial,
                   sig_tradeHistory>>
    /\ UNCHANGED <<engine, sdeVars, eteVars, mlVars, maeVars, timerVars, dmVars>>

\* the clock advances
AI_Tick ==
    /\ engine = "AdvancedTradingAI"
    /\ \E t \in AI_TimePoints : t > ai_now /\ ai_now' = t
    /\ UNCHANGED <<ai_history, ai_metrics, ai_storage, ai_serial, ai_ret, ai_call,
                   sig_tradeHistory>>
    /\ UNCHANGED <<engine, sdeVars, eteVars, mlVars, maeVars, timerVars, dmVars>>

AI_Next ==
    \/ \E symbol \in AI_Symbols, md \in AI_MarketData, pd \in AI_PocketData :
          generateTradeRecommendation(symbol, md, pd)
    \/ \E id \in AI_TradeIds(ai_history), outcome \in AI_Outcomes :
          learnFromTrade(id, outcome) /\ UNCHANGED sig_tradeHistory
    \/ \E p \in AI_EntryPrices, a \in AI_Actions, v \in AI_Volatilities :
          callCalculateRiskManagement(p, a, v)
    \/ \E signals \in AI_HoldSignals, ts \in AI_TrendStrengths :
          callEstimateHoldTime(signals, ts)
    \/ AI_Tick

\* ------------------------------------------------------------------------
\* EnhancedTradingSignals (the component that owns an AdvancedTradingAI)
\* ------------------------------------------------------------------------
MaxSimulations == 2

SIG_Init == sig_tradeHistory = <<>>

\* a simulated trade that takes the id of the newest stored trade record
SIG_tradeId_ofStoredTrade(now, tradeHistory) ==
    IF tradeHistory = <<>> THEN [prefix |-> "sim", time |-> now]
    ELSE tradeHistory[Len(tradeHistory)].id

\* the id of a simulated trade, `sim_${Date.now()}`
SIG_tradeId(now, tradeHistory) == [prefix |-> "sim", time |-> now]

\* generateRecommendations() for selectedSymbols = [symbol]: symbols that
\* lack market or Pocket Option data are skipped
generateRecommendations(symbol, market, pocket) ==
    /\ market # Null
    /\ pocket # Null
    /\ generateTradeRecommendation(symbol, market, pocket)

\* executeTradeSimulation(symbol, recommendation), up to setTimeout, for the
\* recommendation on display; the component keeps the ten newest trades
executeTradeSimulation ==
    /\ engine = "AdvancedTradingAI"
    /\ ai_call.op = "generateTradeRecommendation"
    /\ Len(sig_tradeHistory) < MaxSimulations
    /\ LET recommendation == ai_ret.value
           trade == [id |-> SIG_tradeId(ai_now, ai_history),
                     symbol |-> ai_call.symbol,
                     action |-> recommendation.action,
                     \* undefined on a safe recommendation
                     entryPrice |-> IF "entryPrice" \in DOMAIN recommendation
                                    THEN recommendation.entryPrice ELSE Null,
                     timestamp |-> ai_now,
                     status |-> "active",
                     recommendation |-> recommendation]
       IN  sig_tradeHistory' = <<trade>> \o SubSeq(sig_tradeHistory, 1,
                IF Len(sig_tradeHistory) < 9 THEN Len(sig_tradeHistory) ELSE 9)
    /\ UNCHANGED <<ai_history, ai_metrics, ai_storage, ai_now, ai_serial, ai_ret, ai_call>>
    /\ UNCHANGED <<engine, sdeVars, eteVars, mlVars, maeVars, timerVars, dmVars>>

\* the timeout of executeTradeSimulation for trade i fires: the simulated
\* outcome is reported to learnFromTrade and the trade is marked completed
SIG_timeoutFires(i, outcome) ==
    /\ i \in 1..Len(sig_tradeHistory)
    /\ sig_tradeHistory[i].status = "active"
    /\ learnFromTrade(sig_tradeHistory[i].id, outcome)
    /\ sig_tradeHistory' =
          [k \in 1..Len(sig_tradeHistory) |->
              IF sig_tradeHistory[k].id = sig_tradeHistory[i].id
              THEN [outcome |-> outcome, status |-> "completed"] @@ sig_tradeHistory[k]
              ELSE sig_tradeHistory[k]]

\* ------------------------------------------------------------------------
\* MLEngine
\* ------------------------------------------------------------------------
LearningDataCap == 1000
LearningDataKeep == 500
OutcomeMatchWindow == 60000

\* interpretPrediction(prediction): the first of BUY, SELL, WAIT whose
\* probability is the largest
interpretPrediction(prediction) ==
    LET maxProb == RMax(prediction[1], RMax(prediction[2], prediction[3]))
    IN  IF maxProb = prediction[1] THEN "BUY"
        ELSE IF maxProb = prediction[2] THEN "SELL"
        ELSE "WAIT"

\* JSON.parse(JSON.stringify(marketData)) of a flat object of numbers: NaN
\* and Infinity come back as null
JSONCopy(marketData) ==
    [f \in DOMAIN marketData |->
        IF marketData[f] \in {NaN, Infinity} THEN Null ELSE marketData[f]]

\* `outcome: null` of a stored prediction, written as a string so that it
\* compares with the outcomes 'BUY', 'SELL' and 'WAIT'
NoOutcome == "null"

\* storePrediction(features, prediction, marketData); the feature vector is
\* left out of the record: no modelled operation reads it
storePrediction(learningData, prediction, marketData, now) ==
    LET pushed == Append(learningData,
                         [timestamp |-> now, prediction |-> prediction,
                          marketData |-> JSONCopy(marketData), outcome |-> NoOutcome])
    IN  IF Len(pushed) > LearningDataCap THEN SliceLast(pushed, LearningDataKeep)
        ELSE pushed

\* a lookup that falls back to the newest stored prediction when none lies
\* within a minute of the timestamp
ML_findPrediction_orNewest(learningData, timestamp) ==
    LET hits == {i \in 1..Len(learningData) :
                    Abs(learningData[i].timestamp - timestamp) < 60000}
    IN  IF hits = {} THEN Len(learningData)
        ELSE CHOOSE i \in hits : \A j \in hits : i <= j

\* index of the first stored prediction within a minute of the timestamp, 0
\* when there is none (Array.prototype.find)
ML_findPrediction(learningData, timestamp) ==
    LET hits == {i \in 1..Len(learningData) :
                    Abs(learningData[i].timestamp - timestamp) < OutcomeMatchWindow}
    IN  IF hits = {} THEN 0 ELSE CHOOSE i \in hits : \A j \in hits : i <= j

\* updatePerformanceMetrics keeping the accuracy as a running average of the
\* old accuracy and the new result
ML_updatePerformanceMetrics_runningAverage(performance, prediction) ==
    LET wasCorrect == interpretPrediction(prediction.prediction) = prediction.outcome
    IN  [performance EXCEPT
            !.totalPredictions = @ + 1,
            !.correctPredictions = @ + (IF wasCorrect THEN 1 ELSE 0),
            !.accuracy = RDiv(RAdd(@, IF wasCorrect THEN R(1) ELSE R(0)), R(2))]

\* updatePerformanceMetrics(prediction)
ML_updatePerformanceMetrics(performance, prediction) ==
    LET total == performance.totalPredictions + 1
        wasCorrect == interpretPrediction(prediction.prediction) = prediction.outcome
        correct == performance.correctPredictions + (IF wasCorrect THEN 1 ELSE 0)
    IN  [performance EXCEPT !.totalPredictions = total,
                            !.correctPredictions = correct,
                            !.accuracy = Rat(correct, total)]

\* --- inputs of the MLEngine calls -------------------------------------------
MaxPredictions == 2
MaxFeedback == 2

\* what forwardPass may return: the network weights are drawn with
\* Math.random(), so any probability vector can come out
ML_Predictions ==
    {<<Rat(1, 2), Rat(1, 4), Rat(1, 4)>>,
     <<Rat(1, 5), Rat(2, 5), Rat(2, 5)>>,
     <<Rat(1, 4), Rat(1, 4), Rat(1, 2)>>}
ML_MarketData == {[price |-> R(100), change24h |-> NaN]}
ML_Outcomes == {"BUY", "WAIT"}
ML_TimePoints == {0, 59999, 60000}
ML_FeedbackTimes == ML_TimePoints \cup {200000}

\* --- MLEngine operations ----------------------------------------------------
\* constructor
ML_Init ==
    /\ ml_learningData = <<>>
    /\ ml_performance = [accuracy |-> Rat(1, 2), totalPredictions |-> 0,
                         correctPredictions |-> 0, learningRate |-> Rat(1, 100),
                         adaptationCycles |-> 0]
    /\ ml_now = 0
    /\ ml_ret = Null
    /\ ml_call = [op |-> "none"]

\* predict(marketData, historicalData) when forwardPass returns `prediction`;
\* of the returned object the reasoning and market-condition texts are left out
predict(marketData, prediction) ==
    /\ engine = "MLEngine"
    /\ ml_call' = [op |-> "predict", marketData |-> marketData]
    /\ ml_learningData' = storePrediction(ml_learningData, prediction, marketData, ml_now)
    /\ ml_ret' = [action |-> interpretPrediction(prediction),
                  confidence |-> RMax(prediction[1], RMax(prediction[2], prediction[3])),
                  probabilities |-> [buy |-> prediction[1], sell |-> prediction[2],
                                     wait |-> prediction[3]]]
    /\ UNCHANGED <<ml_performance, ml_now>>
    /\ UNCHANGED <<engine, sdeVars, eteVars, aiVars, maeVars, timerVars, dmVars>>

\* updatePredictionOutcome(timestamp, actualOutcome)
updatePredictionOutcome(timestamp, actualOutcome) ==
    /\ engine = "MLEngine"
    /\ ml_call' = [op |-> "updatePredictionOutcome", timestamp |-> timestamp,
                   actualOutcome |-> actualOutcome]
    /\ ml_ret' = Null
    /\ LET idx == ML_findPrediction(ml_learningData, timestamp)
       IN  IF idx = 0
           THEN UNCHANGED <<ml_learningData, ml_performance>>
           ELSE LET prediction == [ml_learningData[idx] EXCEPT !.outcome = actualOutcome]
                IN  /\ ml_learningData' = [ml_learningData EXCEPT ![idx] = prediction]
                    /\ ml_performance' = ML_updatePerformanceMetrics(ml_performance,
                                                                      prediction)
    /\ UNCHANGED ml_now
    /\ UNCHANGED <<engine, sdeVars, eteVars, aiVars, maeVars, timerVars, dmVars>>

\* the clock advances
ML_Tick ==
    /\ engine = "MLEngine"
    /\ \E t \in ML_TimePoints : t > ml_now /\ ml_now' = t
    /\ UNCHANGED <<ml_learningData, ml_performance, ml_ret, ml_call>>
    /\ UNCHANGED <<engine, sdeVars, eteVars, aiVars, maeVars, timerVars, dmVars>>

ML_predictSome ==
    /\ Len(ml_learningData) < MaxPredictions
    /\ \E md \in ML_MarketData, p \in ML_Predictions : predict(md, p)

ML_updateSome ==
    /\ ml_performance.totalPredictions < MaxFeedback
    /\ \E t \in ML_FeedbackTimes, o \in ML_Outcomes : updatePredictionOutcome(t, o)

\* --- the periodic timers of MLEngine and MarketAnalysisEngine ---------------
\* The timer field (learningInterval, analysisInterval) is not set by the
\* constructor; setInterval returns ids 1, 2, ... that are never reused, and
\* the engine is the only caller, so the next id is the last one plus 1.
NoTimer == 0
MaxStarts == 2
MaxCycles == 1

\* start without the test of the running flag
startTimer_unguarded(running, interval, timers) ==
    [running |-> TRUE, interval |-> interval + 1,
     timers |-> timers \cup {interval + 1}]

\* startAnalysis / startLearning: if (running) return; running = true;
\* interval = setInterval(...)
startTimer(running, interval, timers) ==
    IF running THEN [running |-> running, interval |-> interval, timers |-> timers]
    ELSE [running |-> TRUE, interval |-> interval + 1,
          timers |-> timers \cup {interval + 1}]

\* stopAnalysis / stopLearning: if (interval) { clearInterval(interval);
\* running = false; }
stopTimer(running, interval, timers) ==
    IF interval # NoTimer
    THEN [running |-> FALSE, interval |-> interval, timers |-> timers \ {interval}]
    ELSE [running |-> running, interval |-> interval, timers |-> timers]

Timer_Init ==
    /\ ml_isLearning = FALSE
    /\ ml_learningInterval = NoTimer
    /\ ml_timers = {}
    /\ mae_isRunning = FALSE
    /\ mae_analysisInterval = NoTimer
    /\ mae_timers = {}

\* startLearning()
startLearning ==
    /\ engine = "MLEngine"
    /\ ml_learningInterval < MaxStarts
    /\ LET started == startTimer(ml_isLearning, ml_learningInterval, ml_timers)
       IN  /\ ml_isLearning' = started.running
           /\ ml_learningInterval' = started.interval
           /\ ml_timers' = started.timers
    /\ ml_call' = [op |-> "startLearning"]
    /\ UNCHANGED <<ml_learningData, ml_performance, ml_now, ml_ret>>
    /\ UNCHANGED <<engine, sdeVars, eteVars, aiVars, maeVars, maeTimerVars, dmVars>>

\* stopLearning()
stopLearning ==
    /\ engine = "MLEngine"
    /\ LET stopped == stopTimer(ml_isLearning, ml_learningInterval, ml_timers)
       IN  /\ ml_isLearning' = stopped.running
           /\ ml_learningInterval' = stopped.interval
           /\ ml_timers' = stopped.timers
    /\ ml_call' = [op |-> "stopLearning"]
    /\ UNCHANGED <<ml_learningData, ml_performance, ml_now, ml_ret>>
    /\ UNCHANGED <<engine, sdeVars, eteVars, aiVars, maeVars, maeTimerVars, dmVars>>

\* analyzeRecentPerformance(): the learning rate after the cycle
analyzeRecentPerformance(learningData, performance) ==
    LET recentPredictions ==
            SliceLast(SelectSeq(learningData, LAMBDA p : p.outcome # NoOutcome), 50)
        hits == SelectSeq(recentPredictions,
                          LAMBDA p : interpretPrediction(p.prediction) = p.outcome)
        recentAccuracy == Rat(Len(hits), Len(recentPredictions))
        rate == performance.learningRate
        adjusted == IF RGt(recentAccuracy, Rat(7, 10)) THEN RMul(rate, Rat(95, 100))
                    ELSE IF RLt(recentAccuracy, Rat(4, 10)) THEN RMul(rate, Rat(105, 100))
                    ELSE rate
    IN  IF Len(recentPredictions) < 10 THEN rate
        ELSE RMax(Rat(1, 1000), RMin(Rat(1, 10), adjusted))

\* performLearningCycle(), run by an active interval timer; of the engine's
\* fields it changes performance.learningRate and performance.adaptationCycles
performLearningCycle ==
    /\ engine = "MLEngine"
    /\ ml_timers # {}
    /\ ml_performance.adaptationCycles < MaxCycles
    /\ ml_performance' =
          [ml_performance EXCEPT
              !.learningRate = analyzeRecentPerformance(ml_learningData, ml_performance),
              !.adaptationCycles = @ + 1]
    /\ UNCHANGED <<ml_learningData, ml_now, ml_ret, ml_call>>
    /\ UNCHANGED <<engine, sdeVars, eteVars, aiVars, maeVars, timerVars, dmVars>>

ML_Next == ML_predictSome \/ ML_updateSome \/ ML_Tick

\* ------------------------------------------------------------------------
\* MarketAnalysisEngine
\* ------------------------------------------------------------------------
AnalysisHistoryCap == 100

\* --- inputs of the MarketAnalysisEngine calls -------------------------------
MaxAnalyses == 2

\* what calculateMarketSentiment may find in the simulated market data, which
\* getCurrentMarketData draws with Math.random()
MAE_Sentiments == {"bullish", "bearish"}
\* the onUpdate callback: not given, returning, or throwing
MAE_Callbacks == {"none", "returns", "throws"}
MAE_TimePoints == {0, 1000}

\* --- MarketAnalysisEngine operations ----------------------------------------
\* constructor
MAE_Init ==
    /\ mae_history = <<>>
    /\ mae_now = 0
    /\ mae_ret = Null
    /\ mae_call = [op |-> "none"]

\* the history after push and, past the cap, shift (lines 49-54)
MAE_pushAnalysis(analysisHistory, analysis) ==
    LET pushed == Append(analysisHistory, analysis)
    IN  IF Len(pushed) > AnalysisHistoryCap THEN Tail(pushed) ELSE pushed

\* performAnalysis(onUpdate) over market data with the given sentiment; of
\* the analysis object the timestamp and the sentiment are kept
performAnalysis(onUpdate, sentiment) ==
    /\ engine = "MarketAnalysisEngine"
    /\ mae_call' = [op |-> "performAnalysis", onUpdate |-> onUpdate]
    /\ LET analysis == [timestamp |-> mae_now, marketSentiment |-> sentiment]
       IN  /\ mae_history' = MAE_pushAnalysis(mae_history, analysis)
           /\ mae_ret' = IF onUpdate = "throws" THEN Null ELSE analysis
    /\ UNCHANGED mae_now
    /\ UNCHANGED <<engine, sdeVars, eteVars, aiVars, mlVars, timerVars, dmVars>>

\* the clock advances
MAE_Tick ==
    /\ engine = "MarketAnalysisEngine"
    /\ \E t \in MAE_TimePoints : t > mae_now /\ mae_now' = t
    /\ UNCHANGED <<mae_history, mae_ret, mae_call>>
    /\ UNCHANGED <<engine, sdeVars, eteVars, aiVars, mlVars, timerVars, dmVars>>

\* getAnalysisHistory(limit = 10)
getAnalysisHistory(limit) ==
    /\ engine = "MarketAnalysisEngine"
    /\ mae_call' = [op |-> "getAnalysisHistory", limit |-> limit]
    /\ mae_ret' = [value |-> SliceNeg(mae_history, limit)]
    /\ UNCHANGED <<mae_history, mae_now>>
    /\ UNCHANGED <<engine, sdeVars, eteVars, aiVars, mlVars, timerVars, dmVars>>

MAE_performSome ==
    /\ Len(mae_history) < MaxAnalyses
    /\ \E cb \in MAE_Callbacks, s \in MAE_Sentiments : performAnalysis(cb, s)

\* startAnalysis(onUpdate)
startAnalysis ==
    /\ engine = "MarketAnalysisEngine"
    /\ mae_analysisInterval < MaxStarts
    /\ LET started == startTimer(mae_isRunning, mae_analysisInterval, mae_timers)
       IN  /\ mae_isRunning' = started.running
           /\ mae_analysisInterval' = started.interval
           /\ mae_timers' = started.timers
    /\ mae_call' = [op |-> "startAnalysis"]
    /\ UNCHANGED <<mae_history, mae_now, mae_ret>>
    /\ UNCHANGED <<engine, sdeVars, eteVars, aiVars, mlVars, mlTimerVars, dmVars>>

\* stopAnalysis()
stopAnalysis ==
    /\ engine = "MarketAnalysisEngine"
    /\ LET stopped == stopTimer(mae_isRunning, mae_analysisInterval, mae_timers)
       IN  /\ mae_isRunning' = stopped.running
           /\ mae_analysisInterval' = stopped.interval
           /\ mae_timers' = stopped.timers
    /\ mae_call' = [op |-> "stopAnalysis"]
    /\ UNCHANGED <<mae_history, mae_now, mae_ret>>
    /\ UNCHANGED <<engine, sdeVars, eteVars, aiVars, mlVars, mlTimerVars, dmVars>>

\* an active interval timer runs performAnalysis(onUpdate)
MAE_intervalFires ==
    /\ mae_timers # {}
    /\ Len(mae_history) < MaxAnalyses
    /\ \E cb \in MAE_Callbacks, s \in MAE_Sentiments : performAnalysis(cb, s)

MAE_Next ==
    \/ MAE_performSome
    \/ MAE_Tick
    \/ \E limit \in HistoryLimits : getAnalysisHistory(limit)

\* ------------------------------------------------------------------------
\* TradingDataManager and MarketDataManager
\* ------------------------------------------------------------------------
\* Both classes keep a Map `cache` from symbol to market data and a Map
\* `lastUpdate` from symbol to the time of the fetch that filled it.
UpdateInterval == 30000

EmptyMap == [s \in {} |-> Null]
\* Map.prototype.set
MapSet(m, k, v) == [x \in DOMAIN m \cup {k} |-> IF x = k THEN v ELSE m[x]]

\* TradingDataManager.shouldUseCache answering yes up to the interval itself
shouldUseCache_inclusive(cache, lastUpdate, symbol, now) ==
    IF symbol \notin DOMAIN cache \/ symbol \notin DOMAIN lastUpdate THEN FALSE
    ELSE now - lastUpdate[symbol] <= UpdateInterval

\* TradingDataManager.shouldUseCache(symbol)
shouldUseCache(cache, lastUpdate, symbol, now) ==
    IF symbol \notin DOMAIN cache \/ symbol \notin DOMAIN lastUpdate THEN FALSE
    ELSE now - lastUpdate[symbol] < UpdateInterval

\* MarketDataManager.shouldUpdate(symbol); Date.now() is never 0, so
\* !lastUpdate is true exactly when the Map has no entry
shouldUpdate(lastUpdate, symbol, now) ==
    IF symbol \notin DOMAIN lastUpdate THEN TRUE
    ELSE now - lastUpdate[symbol] > UpdateInterval

\* the store that records the time of every settled fetch, whatever it gave
DM_store_timestampAlways(cache, lastUpdate, symbol, data, now) ==
    [cache |-> IF data = Null THEN cache ELSE MapSet(cache, symbol, data),
     lastUpdate |-> MapSet(lastUpdate, symbol, now)]

\* if (data) { this.cache.set(symbol, data); this.lastUpdate.set(symbol, Date.now()); }
DM_store(cache, lastUpdate, symbol, data, now) ==
    IF data = Null THEN [cache |-> cache, lastUpdate |-> lastUpdate]
    ELSE [cache |-> MapSet(cache, symbol, data),
          lastUpdate |-> MapSet(lastUpdate, symbol, now)]

\* --- inputs of the data manager calls --------------------------------------
MaxCalls == 3

DM_Symbols == {"AAPL", "BTC-USD"}
\* Date.now() at construction, a fetch later, and 29999, 30000 and 30001 ms
\* after that
DM_TimePoints == {1000, 1100, 31099, 31100, 31101}
\* the data a fetch started by call n returns
DM_data(symbol, n) == [symbol |-> symbol, fetchedBy |-> n]

\* --- data manager operations -----------------------------------------------
DM_Init ==
    /\ dm_cache = EmptyMap
    /\ dm_lastUpdate = EmptyMap
    /\ dm_pending = {}
    /\ dm_now = 1000
    /\ dm_ret = Null
    /\ dm_call = [op |-> "none", n |-> 0]
    /\ dm_log = <<>>

\* TradingDataManager.getMarketData(symbol), up to its first await: a cache
\* hit resolves the call, a miss starts a fetch
getMarketData(symbol) ==
    /\ engine = "TradingDataManager"
    /\ dm_call.n < MaxCalls
    /\ dm_call' = [op |-> "getMarketData", symbol |-> symbol, n |-> dm_call.n + 1,
                   at |-> dm_now]
    /\ IF shouldUseCache(dm_cache, dm_lastUpdate, symbol, dm_now)
       THEN /\ dm_ret' = [n |-> dm_call.n + 1, value |-> dm_cache[symbol]]
            /\ UNCHANGED dm_pending
       ELSE /\ dm_pending' = dm_pending \cup
                    {[n |-> dm_call.n + 1, symbol |-> symbol, store |-> TRUE]}
            /\ UNCHANGED dm_ret
    /\ UNCHANGED <<dm_cache, dm_lastUpdate, dm_now, dm_log>>
    /\ UNCHANGED <<engine, sdeVars, eteVars, aiVars, mlVars, maeVars, timerVars>>

\* the fetch awaited by call p of getMarketData settles and the call runs to
\* its end: a rejected fetch goes to catch, which returns null
TDM_fetchSettles(p, outcome) ==
    /\ engine = "TradingDataManager"
    /\ p \in dm_pending
    /\ dm_pending' = dm_pending \ {p}
    /\ IF outcome = "throws"
       THEN /\ dm_ret' = [n |-> p.n, value |-> Null]
            /\ UNCHANGED <<dm_cache, dm_lastUpdate, dm_log>>
       ELSE LET marketData == DM_data(p.symbol, p.n)
                stored == DM_store(dm_cache, dm_lastUpdate, p.symbol, marketData, dm_now)
            IN  /\ dm_cache' = stored.cache
                /\ dm_lastUpdate' = stored.lastUpdate
                /\ dm_ret' = [n |-> p.n, value |-> marketData]
                /\ dm_log' = Append(dm_log, [ev |-> "fetched", symbol |-> p.symbol,
                                             at |-> dm_now])
    /\ UNCHANGED <<dm_now, dm_call>>
    /\ UNCHANGED <<engine, sdeVars, eteVars, aiVars, mlVars, maeVars, timerVars>>

\* TradingDataManager.clearCache()
clearCache ==
    /\ engine = "TradingDataManager"
    /\ dm_call.n < MaxCalls
    /\ dm_call' = [op |-> "clearCache", n |-> dm_call.n + 1]
    /\ dm_cache' = EmptyMap
    /\ dm_lastUpdate' = EmptyMap
    /\ dm_log' = Append(dm_log, [ev |-> "cleared"])
    /\ UNCHANGED <<dm_pending, dm_now, dm_ret>>
    /\ UNCHANGED <<engine, sdeVars, eteVars, aiVars, mlVars, maeVars, timerVars>>

\* MarketDataManager.getCachedOrFetch(symbol), up to its first await
getCachedOrFetch(symbol) ==
    /\ engine = "MarketDataManager"
    /\ dm_call.n < MaxCalls
    /\ dm_call' = [op |-> "getCachedOrFetch", symbol |-> symbol, n |-> dm_call.n + 1,
                   at |-> dm_now]
    /\ IF shouldUpdate(dm_lastUpdate, symbol, dm_now)
       THEN /\ dm_pending' = dm_pending \cup
                    {[n |-> dm_call.n + 1, symbol |-> symbol, store |-> TRUE]}
            /\ UNCHANGED dm_ret
       ELSE IF symbol \in DOMAIN dm_cache
       THEN /\ dm_ret' = [n |-> dm_call.n + 1, value |-> dm_cache[symbol]]
            /\ UNCHANGED dm_pending
       ELSE \* this.cache.get(symbol) || await this.fetchMarketData(symbol)
            /\ dm_pending' = dm_pending \cup
                    {[n |-> dm_call.n + 1, symbol |-> symbol, store |-> FALSE]}
            /\ UNCHANGED dm_ret
    /\ UNCHANGED <<dm_cache, dm_lastUpdate, dm_now, dm_log>>
    /\ UNCHANGED <<engine, sdeVars, eteVars, aiVars, mlVars, maeVars, timerVars>>

\* fetchMarketData awaited by call p of getCachedOrFetch settles, with the
\* data or (from its own catch) with null, and the call runs to its end
MDM_fetchSettles(p, outcome) ==
    /\ engine = "MarketDataManager"
    /\ p \in dm_pending
    /\ dm_pending' = dm_pending \ {p}
    /\ LET data == IF outcome = "null" THEN Null ELSE DM_data(p.symbol, p.n)
           stored == IF p.store
                     THEN DM_store(dm_cache, dm_lastUpdate, p.symbol, data, dm_now)
                     ELSE [cache |-> dm_cache, lastUpdate |-> dm_lastUpdate]
       IN  /\ dm_cache' = stored.cache
           /\ dm_lastUpdate' = stored.lastUpdate
           /\ dm_ret' = [n |-> p.n, value |-> data]
           /\ dm_log' = IF data = Null THEN dm_log
                        ELSE Append(dm_log, [ev |-> "fetched", symbol |-> p.symbol,
                                             at |-> dm_now])
    /\ UNCHANGED <<dm_now, dm_call>>
    /\ UNCHANGED <<engine, sdeVars, eteVars, aiVars, mlVars, maeVars, timerVars>>

\* the clock advances
DM_Tick ==
    /\ engine \in {"TradingDataManager", "MarketDataManager"}
    /\ \E t \in DM_TimePoints : t > dm_now /\ dm_now' = t
    /\ UNCHANGED <<dm_cache, dm_lastUpdate, dm_pending, dm_ret, dm_call, dm_log>>
    /\ UNCHANGED <<engine, sdeVars, eteVars, aiVars, mlVars, maeVars, timerVars>>

DM_Next ==
    \/ \E symbol \in DM_Symbols : getMarketData(symbol)
    \/ \E p \in dm_pending, outcome \in {"data", "throws"} : TDM_fetchSettles(p, outcome)
    \/ clearCache
    \/ \E symbol \in DM_Symbols : getCachedOrFetch(symbol)
    \/ \E p \in dm_pending, outcome \in {"data", "null"} : MDM_fetchSettles(p, outcome)
    \/ DM_Tick

vars == <<engine, sdeVars, eteVars, aiVars, mlVars, maeVars, timerVars, dmVars>>

Init ==
    /\ engine \in {"SmartDecisionEngine", "EnhancedTradingEngine", "AdvancedTradingAI",
                    "MLEngine", "MarketAnalysisEngine"}
    /\ SDE_Init
    /\ ETE_Init
    /\ AI_Init
    /\ ML_Init
    /\ MAE_Init
    /\ Timer_Init
    /\ DM_Init
    /\ SIG_Init

Next == SDE_Next \/ ETE_Next \/ AI_Next \/ ML_Next \/ MAE_Next

Spec == Init /\ [][Next]_vars

\* ------------------------------------------------------------------------
\* The data managers under concurrent calls
\* ------------------------------------------------------------------------
InitData ==
    /\ engine \in {"TradingDataManager", "MarketDataManager"}
    /\ SDE_Init
    /\ ETE_Init
    /\ AI_Constructed(EmptyStorage)
    /\ ML_Init
    /\ MAE_Init
    /\ Timer_Init
    /\ DM_Init
    /\ SIG_Init

SpecData == InitData /\ [][DM_Next]_vars

\* ------------------------------------------------------------------------
\* The periodic timers of the engines
\* ------------------------------------------------------------------------
InitTimers ==
    /\ engine \in {"MLEngine", "MarketAnalysisEngine"}
    /\ SDE_Init
    /\ ETE_Init
    /\ AI_Constructed(EmptyStorage)
    /\ ML_Init
    /\ MAE_Init
    /\ Timer_Init
    /\ DM_Init
    /\ SIG_Init

NextTimers ==
    \/ startLearning
    \/ stopLearning
    \/ performLearningCycle
    \/ startAnalysis
    \/ stopAnalysis
    \/ MAE_intervalFires
    \/ MAE_Tick

SpecTimers == InitTimers /\ [][NextTimers]_vars

\* ------------------------------------------------------------------------
\* The EnhancedTradingSignals flow over its own AdvancedTradingAI
\* ------------------------------------------------------------------------
InitSignals ==
    /\ engine = "AdvancedTradingAI"
    /\ SDE_Init
    /\ ETE_Init
    /\ AI_Constructed(EmptyStorage)
    /\ ML_Init
    /\ MAE_Init
    /\ Timer_Init
    /\ DM_Init
    /\ SIG_Init

NextSignals ==
    \/ \E symbol \in AI_Symbols, md \in AI_MarketData, pd \in AI_PocketData :
          generateRecommendations(symbol, md, pd)
    \/ executeTradeSimulation
    \/ \E i \in 1..MaxSimulations, outcome \in AI_Outcomes : SIG_timeoutFires(i, outcome)
    \/ AI_Tick

SpecSignals == InitSignals /\ [][NextSignals]_vars

\* ------------------------------------------------------------------------
\* A session that starts on a full trade history
\* ------------------------------------------------------------------------
\* localStorage as an earlier session leaves it: at time 0 that session
\* evaluated AAPL once, then BTC-USD until tradeHistory held TradeHistoryCap
\* records, then recorded a winning outcome for the AAPL trade, which saved
\* the history (learnFromTrade, saveLearningData).  Evaluation i of BTC-USD
\* sees only BTC-USD records without an outcome, so from the second one on
\* getRecentPerformance gives it the accuracy it has over a single such record.
AI_EarlierMarketData ==
    [currentPrice |-> R(100), volume |-> R(1000),
     technicalIndicators |-> [rsi |-> R(25), macd |-> R(1), volumeMA |-> R(500)]]
AI_EarlierPocketData == [price |-> R(101), indicators |-> [rsi |-> R(28), macd |-> R(1)]]

AI_earlierRecord(tradeHistory, symbol, serial) ==
    Head(storeForLearning(<<>>, symbol,
            AI_recommendation(tradeHistory, symbol, AI_EarlierMarketData,
                              AI_EarlierPocketData, 0),
            analyzeMarketConditions(AI_EarlierMarketData, AI_EarlierPocketData, 0),
            0, TradeHistoryCap + serial))

AI_EarlierHistory ==
    LET first == AI_withOutcome(AI_earlierRecord(<<>>, "AAPL", 1),
                                [profit |-> Rat(3, 2), holdTime |-> 3, success |-> TRUE])
        second == AI_earlierRecord(<<>>, "BTC-USD", 2)
    IN  Array([i \in 1..TradeHistoryCap |->
            IF i = 1 THEN first
            ELSE IF i = 2 THEN second
            ELSE AI_earlierRecord(<<second>>, "BTC-USD", i)])

AI_FullStorage == [saved |-> TRUE, history |-> AI_EarlierHistory]

\* A long session of one engine: AdvancedTradingAI over the saved history,
\* MLEngine asked for one prediction every millisecond, MarketAnalysisEngine
\* run by its one-second interval timer (startAnalysis).
InitFull ==
    /\ engine \in {"AdvancedTradingAI", "MLEngine", "MarketAnalysisEngine"}
    /\ SDE_Init
    /\ ETE_Init
    /\ AI_Constructed(IF engine = "AdvancedTradingAI" THEN AI_FullStorage
                       ELSE EmptyStorage)
    /\ ML_Init
    /\ MAE_Init
    /\ Timer_Init
    /\ DM_Init
    /\ SIG_Init

RefreshInterval == 1000

\* the next prediction of the long session, made once the clock has moved on
ML_predictNext ==
    /\ IF ml_learningData = <<>> THEN TRUE
       ELSE ml_learningData[Len(ml_learningData)].timestamp < ml_now
    /\ predict([price |-> R(100), change24h |-> NaN], <<Rat(1, 2), Rat(1, 4), Rat(1, 4)>>)

\* a millisecond passes after a prediction, until LearningDataCap + 2
\* predictions are made
ML_TickMs ==
    /\ engine = "MLEngine"
    /\ ml_learningData # <<>>
    /\ ml_learningData[Len(ml_learningData)].timestamp = ml_now
    /\ ml_now <= LearningDataCap
    /\ ml_now' = ml_now + 1
    /\ UNCHANGED <<ml_learningData, ml_performance, ml_ret, ml_call>>
    /\ UNCHANGED <<engine, sdeVars, eteVars, aiVars, maeVars, timerVars, dmVars>>

\* the interval timer fires performAnalysis
MAE_performNext ==
    /\ IF mae_history = <<>> THEN TRUE
       ELSE mae_history[Len(mae_history)].timestamp < mae_now
    /\ performAnalysis("returns", "bullish")

\* the refresh interval passes after an analysis, until AnalysisHistoryCap + 2
\* analyses are made
MAE_TickInterval ==
    /\ engine = "MarketAnalysisEngine"
    /\ mae_history # <<>>
    /\ mae_history[Len(mae_history)].timestamp = mae_now
    /\ mae_now <= AnalysisHistoryCap * RefreshInterval
    /\ mae_now' = mae_now + RefreshInterval
    /\ UNCHANGED <<mae_history, mae_ret, mae_call>>
    /\ UNCHANGED <<engine, sdeVars, eteVars, aiVars, mlVars, timerVars, dmVars>>

NextFull ==
    \/ \E symbol \in AI_Symbols, md \in AI_MarketData, pd \in AI_PocketData :
          generateTradeRecommendation(symbol, md, pd)
    \/ AI_Tick
    \/ ML_predictNext
    \/ ML_TickMs
    \/ MAE_performNext
    \/ MAE_TickInterval

SpecFull == InitFull /\ [][NextFull]_vars

\* ------------------------------------------------------------------------
\* A SmartDecisionEngine that has produced many signals
\* ------------------------------------------------------------------------
\* the cap the decision history is to respect: the largest the specification
\* names ("retain most recent N, e.g. 500-1000")
DecisionHistoryCap == 1000

\* the arguments of the signals of a long SmartDecisionEngine session
SDE_SessionMarketData == [currentPrice |-> 100, technicalIndicators |-> [rsi |-> 20]]
SDE_SessionPocketData == [price |-> 100, indicators |-> [rsi |-> 34]]

\* signalHistory after DecisionHistoryCap calls of generateIntelligentSignal
\* with these arguments: each call pushes its signal (line 67)
SDE_SessionHistory ==
    Array([i \in 1..DecisionHistoryCap |->
        SDE_signal("AAPL", SDE_SessionMarketData, SDE_SessionPocketData)])

\* the engine after those calls
SDE_InSession ==
    /\ sde_history = SDE_SessionHistory
    /\ sde_metrics = SDE_updatePerformanceMetrics(
                        [totalSignals |-> 0, accuracy |-> R(0), avgConfidence |-> R(0)],
                        SDE_SessionHistory)
    /\ sde_ret = SDE_SessionHistory[DecisionHistoryCap]
    /\ sde_call = [op |-> "generateIntelligentSignal", symbol |-> "AAPL",
                   marketData |-> SDE_SessionMarketData,
                   pocketOptionData |-> SDE_SessionPocketData]

InitSession ==
    /\ engine = "SmartDecisionEngine"
    /\ SDE_InSession
    /\ ETE_Init
    /\ AI_Constructed(EmptyStorage)
    /\ ML_Init
    /\ MAE_Init
    /\ Timer_Init
    /\ DM_Init
    /\ SIG_Init

\* the session goes on for two more calls
SDE_generateNext ==
    /\ Len(sde_history) < DecisionHistoryCap + 2
    /\ \E symbol \in SDE_Symbols, md \in SDE_MarketData, pd \in SDE_PocketData :
          generateIntelligentSignal(symbol, md, pd)

SpecSession == InitSession /\ [][SDE_generateNext]_vars

\* ------------------------------------------------------------------------
\* Properties
\* ------------------------------------------------------------------------
\* two decisions with the same fields but for the timestamp
SameExceptTimestamp(a, b) ==
    [a EXCEPT !.timestamp = 0] = [b EXCEPT !.timestamp = 0]

\* the last call was generateIntelligentSignal with both sources present
SDE_evaluated ==
    /\ sde_call.op = "generateIntelligentSignal"
    /\ sde_call.marketData # Null
    /\ sde_call.pocketOptionData # Null

\* the last call was generateTradeRecommendation and no step of it threw
AI_evaluated ==
    /\ ai_call.op = "generateTradeRecommendation"
    /\ ~AI_upstreamThrows(ai_call.marketData, ai_call.pocketOptionData)

\* the last call was generateTradeRecommendation and an upstream step threw
AI_failed ==
    /\ ai_call.op = "generateTradeRecommendation"
    /\ AI_upstreamThrows(ai_call.marketData, ai_call.pocketOptionData)

\* C1: every decision returned by generateIntelligentSignal,
\* generateStructuredSignal and generateTradeRecommendation, the neutral and
\* safe fallback decisions included, carries a confidence that as a
\* percentage lies in [10, 95], whatever calls came before.
C1_ConfidenceInRange ==
    /\ sde_call.op = "generateIntelligentSignal" =>
          /\ RLe(R(10), RMul(sde_ret.confidence, R(100)))
          /\ RLe(RMul(sde_ret.confidence, R(100)), R(95))
    /\ ete_call.op = "generateStructuredSignal" => ete_ret.confidence \in 10..95
    /\ ai_call.op = "generateTradeRecommendation" => ai_ret.value.confidence \in 10..95

\* a second signal whose confidence the clamp cut down to 95%
C1_ClampedAfterPriorCall ==
    /\ SDE_evaluated
    /\ Len(sde_history) >= 2
    /\ sde_ret.confidence = MaxConfidence
    /\ RGt(calculateFinalConfidence_unclamped(
               RMax(Rat(3, 10), RSub(R(1), RMul(RDiv(sde_ret.priceDiscrepancy, R(100)), R(5)))),
               sde_ret.signalStrength, sde_ret.agreement,
               RDiv(sde_ret.priceDiscrepancy, R(100))),
           MaxConfidence)

\* C2: in SmartDecisionEngine, an agreement score below the threshold 0.6
\* makes the action HOLD, for every signal strength.
C2_LowAgreementHolds ==
    /\ sde_call.op = "generateIntelligentSignal"
       /\ RLt(sde_ret.agreement, AgreementThreshold) => sde_ret.action = "HOLD"
    /\ sde_call.op = "determineAction"
       /\ RLt(sde_call.agreement, AgreementThreshold) => sde_ret.action = "HOLD"

\* a fully bullish signal the sources disagree on
C2_StrongSignalHeld ==
    /\ SDE_evaluated
    /\ RLt(sde_ret.agreement, AgreementThreshold)
    /\ sde_ret.signalStrength = R(1)
    /\ sde_ret.action = "HOLD"

\* the action the exclusive thresholds give a composite mean
C3_byThreshold(mean) ==
    IF RGt(mean, Rat(3, 10)) THEN "BUY"
    ELSE IF RLt(mean, Rat(-3, 10)) THEN "SELL"
    ELSE "HOLD"

\* the composite mean of the bar series of the last generateStructuredSignal
C3_eteMean ==
    Const(calculateTechnicalIndicators(ete_call.marketData), LAMBDA indicators :
        analyzeSignal(indicators).rawStrength)

\* the signal strength of the sources of the last generateIntelligentSignal
C3_sdeStrength ==
    calculateSignalStrength(
        analyzeTechnicalSignals(sde_call.marketData.technicalIndicators,
                                sde_call.pocketOptionData.indicators))

\* C3: the directional thresholds are exclusive: BUY only for a composite
\* mean above +0.3, SELL only below -0.3, HOLD otherwise (so for exactly
\* +0.3, exactly -0.3 and for no active factor), in analyzeSignal and, the
\* agreement gate passed, in determineAction.
C3_ExclusiveThresholds ==
    /\ ete_call.op = "generateStructuredSignal" =>
          ete_ret.signal = C3_byThreshold(C3_eteMean)
    /\ sde_call.op = "determineAction"
       /\ RGe(sde_call.agreement, AgreementThreshold) =>
          sde_ret.action = C3_byThreshold(sde_call.signalStrength)
    /\ SDE_evaluated /\ RGe(sde_ret.agreement, AgreementThreshold) =>
          sde_ret.action = C3_byThreshold(C3_sdeStrength)

\* a bar series whose composite mean is exactly +0.3 or -0.3
C3_MeanOnThreshold ==
    /\ ete_call.op = "generateStructuredSignal"
    /\ RAbs(C3_eteMean) = Rat(3, 10)
    /\ ete_ret.signal = "HOLD"

\* the last close of the bar series of the last generateStructuredSignal
ETE_currentPrice == ete_call.marketData[Len(ete_call.marketData)].close

\* a price printed by toFixed(2), read back as a number
Cents(units) == Rat(units, 100)

\* C4: for every decision of calculateEntryExitZones the entry zone has
\* low <= high, and for HOLD the target and the stop-loss both equal the
\* current (last close) price.
C4_ZonesWellFormed ==
    ete_call.op = "generateStructuredSignal" =>
        /\ ete_ret.entryZone.low <= ete_ret.entryZone.high
        /\ ete_ret.signal = "HOLD" =>
              /\ Cents(ete_ret.target) = ETE_currentPrice
              /\ Cents(ete_ret.stopLoss) = ETE_currentPrice

\* the levels of the last calculateRiskManagement call before rounding
C5_levels ==
    AI_riskLevels(ai_call.entryPrice, ai_call.action, ai_call.volatility)

C6_ZonesOrdered ==
    ete_call.op = "generateStructuredSignal" =>
        /\ ete_ret.signal = "BUY" =>
              /\ RLt(Cents(ete_ret.stopLoss), ETE_currentPrice)
              /\ RLt(ETE_currentPrice, Cents(ete_ret.target))
        /\ ete_ret.signal = "SELL" =>
              /\ RLt(Cents(ete_ret.target), ETE_currentPrice)
              /\ RLt(ETE_currentPrice, Cents(ete_ret.stopLoss))

\* C7: generateTradeRecommendation called twice in succession with the same
\* symbol, market data and secondary-source data, no outcome recorded in
\* between, returns recommendations equal in every field but timestamp.
C7_Idempotent ==
    [][(AI_evaluated /\ ai_call' = ai_call /\ ai_serial' = ai_serial + 1)
          => SameExceptTimestamp(ai_ret.value, ai_ret'.value)]_vars

C9_sessionBefore ==
    SelectSeq(ai_history, LAMBDA t : t.id.rnd < ai_serial)

\* C9: the recommendation generateTradeRecommendation returns for a symbol
\* is the one the engine as constructed returns for it, whatever number of
\* evaluations of other symbols came before on the same engine.
C9_NoInterference ==
    (/\ AI_evaluated
     /\ \A i \in 1..Len(C9_sessionBefore) : C9_sessionBefore[i].symbol # ai_call.symbol)
    => SameExceptTimestamp(
          ai_ret.value,
          AI_recommendation(loadTradeHistory(AI_FullStorage), ai_call.symbol,
                            ai_call.marketData, ai_call.pocketOptionData,
                            ai_ret.value.timestamp))

\* the last call was generateIntelligentSignal with the primary source only
SDE_primaryOnly ==
    /\ sde_call.op = "generateIntelligentSignal"
    /\ sde_call.marketData # Null
    /\ sde_call.pocketOptionData = Null

SDE_marketIndicators == sde_call.marketData.technicalIndicators
SDE_pocketIndicators == sde_call.pocketOptionData.indicators

\* the factors both sources carry a value for
C11_compared(mi, pi) ==
    {f \in {"rsi", "macd", "sma20"} : f \in DOMAIN mi /\ f \in DOMAIN pi}

\* the per-factor comparison of the two sources
C11_agrees(f, mi, pi) ==
    CASE f = "rsi" -> Abs(mi.rsi - pi.rsi) < 10
      [] f = "macd" -> (mi.macd > 0) = (pi.macd > 0)
      [] f = "sma20" ->
            LET marketPrice == IF "currentPrice" \in DOMAIN mi THEN mi.currentPrice ELSE 0
                pocketPrice == IF "currentPrice" \in DOMAIN pi THEN pi.currentPrice ELSE 0
            IN  (marketPrice > mi.sma20) = (pocketPrice > pi.sma20)

\* C11: the agreement reported by generateIntelligentSignal is the number of
\* agreeing factors divided by the number of compared factors, the compared
\* factors being those of RSI, MACD and SMA20 that both sources carry a value
\* for (0 when there is none); it lies in [0, 1].
C11_AgreementRatio ==
    SDE_evaluated =>
        LET mi == SDE_marketIndicators
            pi == SDE_pocketIndicators
            compared == C11_compared(mi, pi)
            agreeing == {f \in compared : C11_agrees(f, mi, pi)}
        IN  /\ sde_ret.agreement =
                   (IF compared = {} THEN R(0)
                    ELSE Rat(Cardinality(agreeing), Cardinality(compared)))
            /\ RGe(sde_ret.agreement, R(0))
            /\ RLe(sde_ret.agreement, R(1))

\* the RSI entry of the signals returned by analyzeTechnicalSignals
C12_rsiSignal ==
    LET hits == {i \in 1..Len(sde_ret.signals) : sde_ret.signals[i].type = "RSI"}
    IN  sde_ret.signals[CHOOSE i \in hits : TRUE]

\* both readings point the same way: both oversold, both overbought, or
\* neither extreme and less than 10 apart
C12_sameDirection(m, p) ==
    \/ m < 30 /\ p < 30
    \/ m > 70 /\ p > 70
    \/ /\ m >= 30 /\ m <= 70 /\ p >= 30 /\ p <= 70
       /\ Abs(m - p) < 10

\* C12: the RSI factor of analyzeTechnicalSignals counts as agreeing exactly
\* when the two readings have the same qualitative direction: both below 30,
\* both above 70, or neither extreme and less than 10 apart (29 against 36
\* does not agree, 10 against 25 does).
C12_RsiAgreesOnDirection ==
    (/\ sde_call.op = "analyzeTechnicalSignals"
     /\ Truthy(sde_call.marketIndicators, "rsi")
     /\ Truthy(sde_call.pocketIndicators, "rsi"))
    => (C12_rsiSignal.agreement
          = C12_sameDirection(sde_call.marketIndicators.rsi,
                              sde_call.pocketIndicators.rsi))

\* the step is a learnFromTrade call whose id no stored trade has
C13_unknownTradeCall ==
    /\ ai_call'.op = "learnFromTrade"
    /\ ai_now' = ai_now
    /\ \A i \in 1..Len(ai_history) : ai_history[i].id # ai_call'.tradeId

\* the step is an updatePredictionOutcome call whose timestamp lies a minute
\* or more from every stored prediction
C13_unmatchedOutcomeCall ==
    /\ ml_call'.op = "updatePredictionOutcome"
    /\ ml_now' = ml_now
    /\ \A i \in 1..Len(ml_learningData) :
          Abs(ml_learningData[i].timestamp - ml_call'.timestamp) >= 60000

\* C13: recording an outcome for which no stored decision matches changes
\* nothing and raises nothing: learnFromTrade with an unknown id returns and
\* leaves tradeHistory, performanceMetrics and the saved history as they
\* were; updatePredictionOutcome with a timestamp that matches no stored
\* prediction leaves learningData and performance as they were.
C13_UnmatchedOutcomeIsNoOp ==
    [][/\ C13_unknownTradeCall
          => /\ ai_ret'.completion = "return"
             /\ UNCHANGED <<ai_history, ai_metrics, ai_storage>>
       /\ C13_unmatchedOutcomeCall
          => UNCHANGED <<ml_learningData, ml_performance>>]_vars

\* an outcome was reported for an id that none of the stored trades has
C13_UnknownIdOverStoredTrades ==
    /\ ai_call.op = "learnFromTrade"
    /\ ai_history # <<>>
    /\ \A i \in 1..Len(ai_history) : ai_history[i].id # ai_call.tradeId
    /\ ai_ret.completion = "return"
    /\ ai_metrics.totalTrades = 0

\* the step is a learnFromTrade call for the id of a stored trade
C14_tradeOutcomeRecorded ==
    /\ ai_call'.op = "learnFromTrade"
    /\ ai_now' = ai_now
    /\ \E i \in 1..Len(ai_history) : ai_history[i].id = ai_call'.tradeId

\* the step is an updatePredictionOutcome call whose timestamp lies within a
\* minute of a stored prediction
C14_predictionOutcomeRecorded ==
    /\ ml_call'.op = "updatePredictionOutcome"
    /\ ml_now' = ml_now
    /\ \E i \in 1..Len(ml_learningData) :
          Abs(ml_learningData[i].timestamp - ml_call'.timestamp) < 60000

\* the first stored prediction the reported timestamp matches
C14_matchedPrediction ==
    LET hits == {i \in 1..Len(ml_learningData) :
                    Abs(ml_learningData[i].timestamp - ml_call'.timestamp) < 60000}
    IN  ml_learningData[CHOOSE i \in hits : \A j \in hits : i <= j]

\* counters that moved by one recording whose result was `success`, with the
\* accuracy their ratio
C14_counted(total, succ, accuracy, total2, succ2, accuracy2, success) ==
    /\ total2 = total + 1
    /\ succ2 = succ + (IF success THEN 1 ELSE 0)
    /\ 0 <= succ2 /\ succ2 <= total2
    /\ accuracy2 = Rat(succ2, total2)

C15_keptSuffix(before, after, cap) ==
    /\ Len(after) <= cap
    /\ after # <<>>
    /\ LET appended == Append(before, after[Len(after)])
           dropped == Len(appended) - Len(after)
       IN  /\ dropped >= 0
           /\ after = SubSeq(appended, dropped + 1, Len(appended))

\* C15: the history buffers stay bounded and keep the most recent entries in
\* the order they were appended: tradeHistory never exceeds 1000 entries,
\* learningData never exceeds 1000, analysisHistory never exceeds 100, and
\* every append leaves a buffer that is the old buffer plus the new entry with
\* entries removed from the front only.
C15_BoundedRecentSuffix ==
    [][/\ Len(ai_history') <= 1000
       /\ Len(ml_learningData') <= 1000
       /\ Len(mae_history') <= 100
       /\ ai_serial' = ai_serial + 1 => C15_keptSuffix(ai_history, ai_history', 1000)
       /\ (ml_call'.op = "predict" /\ ml_now' = ml_now)
          => C15_keptSuffix(ml_learningData, ml_learningData', 1000)
       /\ (mae_call'.op = "performAnalysis" /\ mae_now' = mae_now)
          => C15_keptSuffix(mae_history, mae_history', 100)]_vars

\* the first evaluation of a session that started on a full history: its
\* record is the newest of the 1000 kept and the oldest saved record is gone
C15_OldestTradeDropped ==
    /\ ai_serial = 1
    /\ Len(ai_history) = 1000
    /\ ai_history[1000].id = AI_tradeId(ai_now, 1)
    /\ ai_history[1] = AI_EarlierHistory[2]

\* C16: signalHistory is bounded: however many signals
\* generateIntelligentSignal has produced, the history holds at most
\* DecisionHistoryCap of them.
C16_SignalHistoryBounded == Len(sde_history) <= DecisionHistoryCap

\* the confidence the discrepancy d leaves of a signal of strength s and
\* agreement a: base max(0.3, 1 - 5d), times (1 + s)(0.5 + a), times (1 - d)
\* when d > 0.02, kept within [0.1, 0.95]
C17_confidenceAt(d, s, a) ==
    LET base == RMax(Rat(3, 10), RSub(R(1), RMul(R(5), d)))
        extra == IF RGt(d, Rat(2, 100)) THEN RSub(R(1), d) ELSE R(1)
        raw == RMul(RMul(RMul(base, RAdd(R(1), s)), RAdd(Rat(1, 2), a)), extra)
    IN  RMax(Rat(1, 10), RMin(Rat(95, 100), raw))

\* other prices the second source might have quoted
C17_PocketPrices == {10, 90, 97, 99, 100, 101, 102, 103, 104, 110, 130, 250}

\* the signal of the last call had the second source quoted `price`
C17_signalAt(price) ==
    SDE_signal(sde_call.symbol, sde_call.marketData,
               [sde_call.pocketOptionData EXCEPT !.price = price])

\* C17: for fixed signal strength and agreement the confidence of
\* generateIntelligentSignal never rises with the price discrepancy
\* d = |marketPrice - pocketPrice| / marketPrice: it is the clamped product of
\* the base max(0.3, 1 - 5d), the strength and agreement factors and, exactly
\* when d > 0.02, the factor (1 - d); a quote further from the market price
\* never gives a higher confidence.
C17_ConfidenceFallsWithDiscrepancy ==
    SDE_evaluated =>
        /\ sde_ret.confidence
             = C17_confidenceAt(RDiv(sde_ret.priceDiscrepancy, R(100)),
                                sde_ret.signalStrength, sde_ret.agreement)
        /\ \A price \in C17_PocketPrices :
              LET other == C17_signalAt(price)
              IN  /\ other.signalStrength = sde_ret.signalStrength
                  /\ other.agreement = sde_ret.agreement
                  /\ RGe(other.priceDiscrepancy, sde_ret.priceDiscrepancy)
                       => RLe(other.confidence, sde_ret.confidence)
                  /\ RLe(other.priceDiscrepancy, sde_ret.priceDiscrepancy)
                       => RGe(other.confidence, sde_ret.confidence)

\* prices 100 and 103: discrepancy 3%, base 0.85, extra factor 0.97, and the
\* product is inside the clamp
C17_ThreePercentApart ==
    /\ SDE_evaluated
    /\ sde_ret.marketPrice = R(100)
    /\ sde_ret.pocketOptionPrice = R(103)
    /\ sde_ret.priceDiscrepancy = R(3)
    /\ sde_ret.confidence
         = RMul(RMul(Rat(85, 100), Rat(97, 100)),
                RMul(RAdd(R(1), sde_ret.signalStrength),
                     RAdd(Rat(1, 2), sde_ret.agreement)))
    /\ RLt(sde_ret.confidence, Rat(95, 100))
    /\ RGt(C17_signalAt(100).confidence, sde_ret.confidence)

\* the bars the indicators of calculateTechnicalIndicators look back over,
\* as the specification requires them: RSI 15, MACD 35, SMA50 50, Bollinger
\* 20, Stochastic 14
C18_Lookbacks == {15, 35, 50, 20, 14}

\* C18: generateStructuredSignal over a bar window shorter than the lookback
\* of one of its indicators emits no signal (it fails with an
\* InsufficientDataError instead).
C18_ShortWindowRejected ==
    (/\ ete_call.op = "generateStructuredSignal"
     /\ \E n \in C18_Lookbacks : Len(ete_call.marketData) < n)
    => "signal" \notin DOMAIN ete_ret

\* the changes calculateRSI averages: the last 14 of the series
C19_trailingChanges(prices) ==
    {i \in 1..(Len(prices) - 1) : i >= Len(prices) - 14}

\* C19: for a series of at least 15 positive closes calculateRSI returns a
\* value in [0, 100], and exactly 100 when none of the trailing 14 changes is
\* a loss.
C19_RsiInRange ==
    (ete_call.op = "calculateRSI" /\ Len(ete_call.prices) >= 15) =>
        /\ RGe(ete_ret.value, R(0))
        /\ RLe(ete_ret.value, R(100))
        /\ (\A i \in C19_trailingChanges(ete_call.prices) :
               RGe(ete_call.prices[i + 1], ete_call.prices[i]))
           => ete_ret.value = R(100)

\* a series of 15 closes or more that rose and never fell over the trailing
\* 14 changes
C19_RisingSeries ==
    /\ ete_call.op = "calculateRSI"
    /\ Len(ete_call.prices) >= 15
    /\ \A i \in C19_trailingChanges(ete_call.prices) :
          RGe(ete_call.prices[i + 1], ete_call.prices[i])
    /\ \E i \in C19_trailingChanges(ete_call.prices) :
          RGt(ete_call.prices[i + 1], ete_call.prices[i])
    /\ ete_ret.value = R(100)

\* the lowest low and the highest high of the last 14 bars are equal
C20_flatWindow(data) ==
    LET slice == SliceLast(data, 14)
    IN  \A i, j \in 1..Len(slice) : slice[i].low = slice[j].high

\* C20: calculateStochastic returns 0 when the highest high of the lookback
\* window equals its lowest low, and it never returns NaN or Infinity.
C20_StochasticDefined ==
    ete_call.op = "calculateStochastic" =>
        /\ ete_ret.value \notin {NaN, Infinity}
        /\ C20_flatWindow(ete_call.data) => ete_ret.value = R(0)

\* the MACD value at every bar of the window: EMA12 - EMA26 of the closes up
\* to that bar
C21_macdSeries(prices) ==
    Array([k \in 1..Len(prices) |->
        RSub(calculateEMA(SubSeq(prices, 1, k), 12),
             calculateEMA(SubSeq(prices, 1, k), 26))])

\* C21: calculateMACD returns as signal line the 9-period EMA of the series
\* of MACD values along the window, and histogram = macd - signal.
C21_SignalIsEmaOfMacdSeries ==
    ete_call.op = "calculateMACD" =>
        /\ ete_ret.signal = calculateEMA(C21_macdSeries(ete_call.prices), 9)
        /\ ete_ret.histogram = RSub(ete_ret.macd, ete_ret.signal)

\* the closes of the series rise strictly from bar to bar and every bar
\* trades the same volume
C22_risingFlatVolume(data) ==
    /\ \A i \in 1..(Len(data) - 1) : RLt(data[i].close, data[i + 1].close)
    /\ \A i, j \in 1..Len(data) : data[i].volume = data[j].volume

\* C22: generateStructuredSignal over 20 bars whose closes are strictly
\* increasing with flat volume returns HOLD or BUY, never SELL.
C22_RisingSeriesNeverSell ==
    (/\ ete_call.op = "generateStructuredSignal"
     /\ Len(ete_call.marketData) = 20
     /\ C22_risingFlatVolume(ete_call.marketData))
    => ete_ret.signal \in {"HOLD", "BUY"}

\* the bucket of a duration of h hours: scalp below 2, day from 2 to 8, swing
\* above 8
C23_bucket(h) ==
    IF h < 2 THEN "scalp trading" ELSE IF h <= 8 THEN "day trading" ELSE "swing trading"

\* C23: estimateHoldTime maps the estimated duration h to 'scalp' when h < 2,
\* 'day' when 2 <= h <= 8 and 'swing' when h > 8, for every trend strength
\* and composite strength.
C23_HoldTimeBuckets ==
    ai_call.op = "estimateHoldTime" =>
        ai_ret.value.strategy = C23_bucket(ai_ret.value.duration)

\* the `limit` most recent entries of a history, in append order
C24_mostRecent(history, limit) ==
    SubSeq(history, Len(history) - (IF limit < Len(history) THEN limit ELSE Len(history)) + 1,
           Len(history))

\* C24: the history query returns at most `limit` entries, the `limit` most
\* recent ones in append order, for every limit >= 0 (an empty sequence for
\* limit = 0) and every history length.
C24_HistoryQueryBounded ==
    /\ sde_call.op = "getSignalHistory" =>
          /\ Len(sde_ret.value) <= sde_call.limit
          /\ sde_ret.value = C24_mostRecent(sde_history, sde_call.limit)
    /\ mae_call.op = "getAnalysisHistory" =>
          /\ Len(mae_ret.value) <= mae_call.limit
          /\ mae_ret.value = C24_mostRecent(mae_history, mae_call.limit)

\* the step is call number dm_call.n + 1, of getMarketData(symbol)
C25_calls(symbol) ==
    /\ engine = "TradingDataManager"
    /\ dm_call'.n = dm_call.n + 1
    /\ dm_call'.op = "getMarketData"
    /\ dm_call'.symbol = symbol

\* a fetch for the symbol gave data less than UpdateInterval ago
C25_fetchedRecently(symbol) ==
    \E i \in 1..Len(dm_log) :
        /\ dm_log[i].ev = "fetched"
        /\ dm_log[i].symbol = symbol
        /\ dm_now - dm_log[i].at < UpdateInterval

\* ... and clearCache was not called after that fetch
C25_fetchedRecentlyAndKept(symbol) ==
    \E i \in 1..Len(dm_log) :
        /\ dm_log[i].ev = "fetched"
        /\ dm_log[i].symbol = symbol
        /\ dm_now - dm_log[i].at < UpdateInterval
        /\ \A j \in (i + 1)..Len(dm_log) : dm_log[j].ev # "cleared"

\* the call resolves with the cached object and no fetch is started
C25_servedFromCache(symbol) ==
    /\ symbol \in DOMAIN dm_cache
    /\ dm_ret' = [n |-> dm_call'.n, value |-> dm_cache[symbol]]
    /\ dm_pending' = dm_pending

\* the call starts a fetch for the symbol
C25_startsFetch(symbol) ==
    \E p \in dm_pending' \ dm_pending : p.n = dm_call'.n /\ p.symbol = symbol

\* a fetch that gave data replaces the cached value and its timestamp
C25_replacesOnSuccess ==
    \A p \in dm_pending \ dm_pending' :
        (engine = "TradingDataManager" /\ dm_ret'.value # Null) =>
            /\ dm_cache'[p.symbol] = dm_ret'.value
            /\ dm_lastUpdate'[p.symbol] = dm_now

\* C25 as stated: a getMarketData call less than 30 s after a fetch for the
\* symbol gave data returns the cached object and starts no fetch; a call
\* 30 s or more after it fetches again and the data replaces the cached
\* value and its timestamp.
C25_ServesCacheWithinInterval ==
    [][/\ \A symbol \in DM_Symbols : C25_calls(symbol) =>
            IF C25_fetchedRecently(symbol) THEN C25_servedFromCache(symbol)
            ELSE C25_startsFetch(symbol)
       /\ C25_replacesOnSuccess]_vars

\* C25, amended: the same, for a fetch after which clearCache was not called;
\* after clearCache the next call fetches again whatever the time.
C25_ServesCacheUnlessCleared ==
    [][/\ \A symbol \in DM_Symbols : C25_calls(symbol) =>
            IF C25_fetchedRecentlyAndKept(symbol) THEN C25_servedFromCache(symbol)
            ELSE C25_startsFetch(symbol)
       /\ C25_replacesOnSuccess]_vars

\* a call resolved with the data an earlier call fetched, 29999 ms after
\* that fetch
C25_ServedFromCache ==
    /\ engine = "TradingDataManager"
    /\ dm_call.op = "getMarketData"
    /\ dm_ret # Null
    /\ dm_ret.n = dm_call.n
    /\ dm_ret.value # Null
    /\ dm_ret.value.fetchedBy < dm_call.n
    /\ dm_call.at - dm_lastUpdate[dm_call.symbol] = UpdateInterval - 1

\* the recommendation carries the three risk levels and all are 0
C26_zeroLevels(recommendation) ==
    /\ {"stopLoss", "takeProfit", "riskRewardRatio"} \subseteq DOMAIN recommendation
    /\ recommendation.stopLoss = R(0)
    /\ recommendation.takeProfit = R(0)
    /\ recommendation.riskRewardRatio = R(0)

C27_tradesWithOutcome ==
    {i \in 1..Len(ai_history) : "outcome" \in DOMAIN ai_history[i]}

\* the stored predictions whose outcome is set
C27_predictionsWithOutcome ==
    {i \in 1..Len(ml_learningData) : ml_learningData[i].outcome # NoOutcome}

\* C27: every outcome is counted at most once: performanceMetrics.totalTrades
\* equals the number of tradeHistory records that have an outcome attached,
\* and performance.totalPredictions equals the number of stored predictions
\* whose outcome is set.
C27_OutcomesCountedOnce ==
    /\ ai_metrics.totalTrades = Cardinality(C27_tradesWithOutcome)
    /\ ml_performance.totalPredictions = Cardinality(C27_predictionsWithOutcome)

C29_mapsAgree == DOMAIN dm_cache = DOMAIN dm_lastUpdate

\* the step settles the fetch of a pending call with nothing to return
C29_fetchGaveNothing ==
    /\ dm_pending' # dm_pending
    /\ dm_pending' \subseteq dm_pending
    /\ dm_ret'.value = Null

\* the step is a clearCache call
C29_clears == dm_call'.n = dm_call.n + 1 /\ dm_call'.op = "clearCache"

\* C29: under every interleaving of concurrent getMarketData and
\* getCachedOrFetch calls the cache has an entry for a symbol if and only if
\* lastUpdate has one; a fetch that fails or yields nothing returns null and
\* leaves both maps unchanged; clearCache empties both.
C29_CacheConsistent ==
    /\ []C29_mapsAgree
    /\ [][/\ C29_fetchGaveNothing => UNCHANGED <<dm_cache, dm_lastUpdate>>
          /\ C29_clears => dm_cache' = EmptyMap /\ dm_lastUpdate' = EmptyMap]_vars

\* two calls for the same symbol missed and fetched at once; the fetch of
\* one has failed, the other is still awaited
C29_FailedFetchAmongConcurrent ==
    /\ dm_ret # Null
    /\ dm_ret.value = Null
    /\ \E p \in dm_pending : p.symbol = dm_call.symbol /\ p.n # dm_ret.n
    /\ dm_call.op \in {"getMarketData", "getCachedOrFetch"}
    /\ dm_call.n = 2
    /\ C29_mapsAgree

\* the running flag is set exactly when one interval timer is active, and
\* never more than one is
C30_flagMatchesTimers(running, timers) ==
    /\ Cardinality(timers) <= 1
    /\ running <=> Cardinality(timers) = 1

\* C30: at most one periodic timer is ever active per engine: a start while
\* already running changes nothing, isRunning (isLearning) is true exactly
\* when one interval timer is active, and after a stop no timer remains
\* active, also after start-stop-start and after a stop before any start.
C30_AtMostOneTimer ==
    /\ [](/\ C30_flagMatchesTimers(mae_isRunning, mae_timers)
          /\ C30_flagMatchesTimers(ml_isLearning, ml_timers)
          /\ mae_call.op = "stopAnalysis" => mae_timers = {} /\ ~mae_isRunning
          /\ ml_call.op = "stopLearning" => ml_timers = {} /\ ~ml_isLearning)
    /\ [][/\ (mae_call'.op = "startAnalysis" /\ mae_isRunning)
                => UNCHANGED maeTimerVars
          /\ (ml_call'.op = "startLearning" /\ ml_isLearning)
                => UNCHANGED mlTimerVars]_vars

\* an engine was started, stopped and started again: its second timer is the
\* only active one
C30_RestartedWithOneTimer ==
    \/ /\ mae_call.op = "startAnalysis"
       /\ mae_analysisInterval = 2
       /\ mae_timers = {2}
       /\ mae_isRunning
    \/ /\ ml_call.op = "startLearning"
       /\ ml_learningInterval = 2
       /\ ml_timers = {2}
       /\ ml_isLearning

====
